---- MODULE Spec2Model ----
(***************************************************************************)
(* zcompiler: the recursive-descent parser with its embedded type checker  *)
(* (src/src/parser.rs) over the AST of src/src/ast.rs.                      *)
(*                                                                         *)
(* The parser object is the state: tokens, current, nodes, symbols and     *)
(* current_fn are the fields of struct Parser.  The expression grammar is  *)
(* a family of recursive operators, one per method.  The statement level   *)
(* is a state machine: one action per statement handler, with the handlers *)
(* that are in progress (a function body, the block of an if, while or for)*)
(* kept in `stack`, the call stack of the Rust program.  A panic ends the  *)
(* run: pc = "panic" and err holds the message.                            *)
(***************************************************************************)
EXTENDS Integers, Sequences, FiniteSets, TLC

VARIABLES tokens, current, nodes, symbols, current_fn, stack, pc, err,
          registers, label_count, assembly, tasks, results

vars == <<tokens, current, nodes, symbols, current_fn, stack, pc, err,
          registers, label_count, assembly, tasks, results>>

(***************************************************************************)
(* Bounds of the checked inputs.                                           *)
(***************************************************************************)
\* literals 0..MaxSmallLit are operands of the generated expressions
MaxSmallLit == 1
\* the statement under test is wrapped in 0..MaxNest blocks `if (c == c) { }`
MaxNest == 1
\* 1..MaxCalls statements `init(c);` in a row
MaxCalls == 5

(***************************************************************************)
(* A u64 is held as two digits in base 2^16, hi * 65536 + lo, with         *)
(* lo < 65536: model integers are 32-bit and the literals of interest     *)
(* reach 2^32.                                                             *)
(***************************************************************************)
Radix == 65536
U64(hi, lo) == [hi |-> hi, lo |-> lo]
Small(n) == U64(0, n)
\* v <= n for a bound n below the radix
AtMost(v, n) == v.hi = 0 /\ v.lo <= n

(***************************************************************************)
(* Tokens (crate::lexer, used through parser.rs).  lexeme "" and value 0   *)
(* stand for None.  Positions (line, column) only feed messages.           *)
(***************************************************************************)
Tok(ty) == [type |-> ty, lexeme |-> "", value |-> Small(0)]
Ident(name) == [type |-> "Identifier", lexeme |-> name, value |-> Small(0)]
IntTok(v) == [type |-> "Integer", lexeme |-> "", value |-> v]

(***************************************************************************)
(* Types (crate::types).  A type is a base integer type with a number of   *)
(* pointer indirections: Type::U8 is [base U8, ptr 0], Type::PU32 is       *)
(* [base U32, ptr 1].  Int is the 64-bit integer.                          *)
(***************************************************************************)
Ty(b, n) == [base |-> b, ptr |-> n]
TypeU8 == Ty("U8", 0)
TypeU32 == Ty("U32", 0)
TypeInt == Ty("Int", 0)
TypePU8 == Ty("U8", 1)
TypePU32 == Ty("U32", 1)
TypePInt == Ty("Int", 1)
\* Option<Type>::None
NoType == Ty("None", 0)

is_pointer(ty) == ty.ptr > 0
is_integer(ty) == ty.ptr = 0

\* size in bytes
size(ty) ==
    IF is_pointer(ty) THEN 8
    ELSE CASE ty.base = "U8" -> 1
           [] ty.base = "U32" -> 4
           [] OTHER -> 8

pointer_to(ty) == Ty(ty.base, ty.ptr + 1)

\* unwraps one indirection; invalid on a non-pointer, where it is NoType and
\* the caller aborts
value_at(ty) == IF is_pointer(ty) THEN Ty(ty.base, ty.ptr - 1) ELSE NoType

(***************************************************************************)
(* AST nodes (ast.rs).                                                     *)
(***************************************************************************)
NoNode == [kind |-> "None"]

BinaryExpr(l, o, r, t) ==
    [kind |-> "BinaryExpr", left |-> l, operator |-> o, right |-> r, ty |-> t]
UnaryExpr(o, r, t) == [kind |-> "UnaryExpr", operator |-> o, right |-> r, ty |-> t]
\* value: [lit |-> "U8" | "Integer", v |-> n] or [lit |-> "Identifier", name |-> s]
LiteralExpr(v, t) == [kind |-> "LiteralExpr", value |-> v, ty |-> t]
GlobalVar(id, t) == [kind |-> "GlobalVar", identifier |-> id, ty |-> t]
AssignStmt(id, e) == [kind |-> "AssignStmt", identifier |-> id, expr |-> e]
CompoundStmt(s) == [kind |-> "CompoundStmt", statements |-> s]
IfStmt(c, t, e) ==
    [kind |-> "IfStmt", condition |-> c, then_branch |-> t, else_branch |-> e]
WhileStmt(c, b) == [kind |-> "WhileStmt", condition |-> c, body |-> b]
FnDecl(id, b, rt) ==
    [kind |-> "FnDecl", identifier |-> id, body |-> b, return_type |-> rt]
FnCall(id, e, t) == [kind |-> "FnCall", identifier |-> id, expr |-> e, ty |-> t]
ReturnStmt(e, f) == [kind |-> "ReturnStmt", expr |-> e, fn_name |-> f]

\* Node::ty(): the statements have none
HasTy(n) == n.kind \in {"BinaryExpr", "UnaryExpr", "LiteralExpr", "GlobalVar", "FnCall"}

(***************************************************************************)
(* Symbols.                                                                *)
(***************************************************************************)
Symbol(id, st, t, el) ==
    [identifier |-> id, structure |-> st, ty |-> t, end_label |-> el]
NoSymbol == [structure |-> "None"]

\* Parser::new: the seeded intrinsic
BuiltinSymbols == << Symbol(Ident("printint"), "Function", TypeInt, <<>>) >>

RECURSIVE find_in(_, _, _)
find_in(syms, name, i) ==
    IF i > Len(syms) THEN NoSymbol
    ELSE IF syms[i].identifier.lexeme = name THEN syms[i]
    ELSE find_in(syms, name, i + 1)

find_symbol(identifier) == find_in(symbols, identifier.lexeme, 1)

(***************************************************************************)
(* The cursor.  `current` is 0-based as in the source: peek is             *)
(* tokens[current] there and tokens[cur + 1] here.                         *)
(***************************************************************************)
peek(cur) == tokens[cur + 1]
previous(cur, i) == tokens[cur - i + 1]
is_at_end(cur) == peek(cur).type = "EOF"
check(cur, ty) == IF is_at_end(cur) THEN FALSE ELSE peek(cur).type = ty
advance(cur) == IF ~is_at_end(cur) THEN cur + 1 ELSE cur
\* match_token(vec): TRUE when one of the types is next; the cursor then advances
match_token(cur, tys) == \E ty \in tys : check(cur, ty)

\* u8::MAX
U8Max == 255

\* the value a method returns, the cursor it leaves, and the panic it raised
Ok(n, cur) == [node |-> n, cur |-> cur, err |-> ""]
Panic(msg, cur) == [node |-> NoNode, cur |-> cur, err |-> msg]

\* expect(vec): the cursor after the token, or the panic
expect(cur, tys) ==
    IF match_token(cur, tys) THEN Ok(NoNode, advance(cur))
    ELSE Panic("Expected token", cur)

(***************************************************************************)
(* type_compatible: [ok, widen_left, widen_right].  The two flags are the  *)
(* caller's out-parameters, false when the function leaves them alone.     *)
(***************************************************************************)
Compat(ok, wl, wr) == [ok |-> ok, widen_left |-> wl, widen_right |-> wr]

\* a check that widens either side whatever right_only says
type_compatible_either_side(left, right, right_only) ==
    IF left = right THEN Compat(TRUE, FALSE, FALSE)
    ELSE IF size(left) < size(right) THEN Compat(TRUE, TRUE, FALSE)
    ELSE IF size(left) > size(right) THEN Compat(TRUE, FALSE, TRUE)
    ELSE Compat(TRUE, FALSE, FALSE)

type_compatible(left, right, right_only) ==
    IF left = right THEN Compat(TRUE, FALSE, FALSE)
    ELSE IF size(left) < size(right) THEN Compat(TRUE, TRUE, FALSE)
    ELSE IF size(left) > size(right)
         THEN IF right_only THEN Compat(FALSE, FALSE, FALSE)
              ELSE Compat(TRUE, FALSE, TRUE)
    ELSE Compat(TRUE, FALSE, FALSE)

\* the widen node the callers build: it keeps the type of the node it wraps
Widen(n) == UnaryExpr(Tok("Widen"), n, n.ty)

(***************************************************************************)
(* The expression grammar: expression -> equality -> comparison -> term -> *)
(* factor -> unary -> prefix -> primary.  Each operator takes the cursor   *)
(* and gives Ok(node, cursor) or Panic(message, cursor).                   *)
(***************************************************************************)
\* v handed on by value: K(v)
Bind(v, K(_)) == CHOOSE y \in {K(x) : x \in {v}} : TRUE
\* the call r, then K on what it returned; a panic of r unwinds through K
Then(r, K(_)) == Bind(r, LAMBDA x : IF x.err # "" THEN x ELSE K(x))

RECURSIVE expression(_), equality_loop(_, _), comparison(_), comparison_loop(_, _)
RECURSIVE term(_), term_loop(_, _), factor(_), factor_loop(_, _)
RECURSIVE unary(_), prefix(_), primary(_), function_call(_)

IsIdentifierLiteral(n) == n.kind = "LiteralExpr" /\ n.value.lit = "Identifier"

\* function_call, entered after `identifier (`
function_call(cur) ==
    LET identifier == previous(cur, 2)
        symbol == find_symbol(identifier)
    IN  IF symbol.structure = "None" THEN Panic("Function not declared", cur)
        ELSE IF symbol.structure # "Function" THEN Panic("Expected function", cur)
        ELSE Then(expression(cur), LAMBDA e :
             Then(expect(e.cur, {"RightParen"}), LAMBDA x :
             Ok(FnCall(identifier, e.node, symbol.ty), x.cur)))

primary(cur) ==
    IF match_token(cur, {"Integer"})
    THEN LET val == peek(cur).value
         IN  Ok(LiteralExpr(IF AtMost(val, U8Max) THEN [lit |-> "U8", v |-> val]
                                                  ELSE [lit |-> "Integer", v |-> val],
                            IF AtMost(val, U8Max) THEN TypeU8 ELSE TypeInt),
                advance(cur))
    ELSE IF match_token(cur, {"Identifier"})
    THEN LET identifier == peek(cur)
             symbol == find_symbol(identifier)
             c1 == advance(cur)
         IN  IF symbol.structure = "None" THEN Panic("Variable not declared", c1)
             ELSE IF match_token(c1, {"LeftParen"})
                  THEN IF symbol.structure # "Function"
                       THEN Panic("Expected function", advance(c1))
                       ELSE function_call(advance(c1))
                  ELSE IF symbol.structure # "Variable"
                       THEN Panic("Expected variable", c1)
                       ELSE Ok(LiteralExpr([lit |-> "Identifier",
                                            name |-> identifier.lexeme],
                                           symbol.ty), c1)
    ELSE Panic("Unexpected token", cur)

prefix(cur) ==
    IF match_token(cur, {"Ampersand"})
    THEN Then(prefix(advance(cur)), LAMBDA n :
         IF ~IsIdentifierLiteral(n.node) THEN Panic("Expected identifier", n.cur)
         ELSE Ok(UnaryExpr(Tok("Ampersand"), n.node, pointer_to(n.node.ty)), n.cur))
    ELSE IF match_token(cur, {"Mul"})
    THEN Then(prefix(advance(cur)), LAMBDA n :
         IF ~(\/ IsIdentifierLiteral(n.node)
              \/ /\ n.node.kind = "UnaryExpr"
                 /\ n.node.operator.type = "Ampersand")
         THEN Panic("Expected identifier", n.cur)
         ELSE IF value_at(n.node.ty) = NoType
         THEN Panic("value_at of a non-pointer", n.cur)
         ELSE Ok(UnaryExpr(Tok("Mul"), n.node, value_at(n.node.ty)), n.cur))
    ELSE primary(cur)

unary(cur) ==
    IF match_token(cur, {"Sub"})
    THEN Then(unary(advance(cur)), LAMBDA right :
         Ok(UnaryExpr(peek(cur), right.node, right.node.ty), right.cur))
    ELSE prefix(cur)

\* the body of the loops of term and factor: check, widen, build
Arith(node, operator, right, right_only, cur) ==
    LET tc == type_compatible(node.ty, right.ty, right_only)
        l == IF tc.widen_left THEN Widen(node) ELSE node
        r == IF tc.widen_right THEN Widen(right) ELSE right
    IN  IF ~tc.ok THEN Panic("Incompatible types", cur)
        ELSE Ok(BinaryExpr(l, operator, r, l.ty), cur)

factor_loop(node, cur) ==
    IF match_token(cur, {"Mul", "Div"})
    THEN Then(unary(advance(cur)), LAMBDA right :
         Then(Arith(node, peek(cur), right.node, peek(cur).type = "Sub", right.cur),
              LAMBDA b : factor_loop(b.node, b.cur)))
    ELSE Ok(node, cur)

factor(cur) == Then(unary(cur), LAMBDA n : factor_loop(n.node, n.cur))

term_loop(node, cur) ==
    IF match_token(cur, {"Add", "Sub"})
    THEN Then(factor(advance(cur)), LAMBDA right :
         Then(Arith(node, peek(cur), right.node, peek(cur).type = "Sub", right.cur),
              LAMBDA b : term_loop(b.node, b.cur)))
    ELSE Ok(node, cur)

term(cur) == Then(factor(cur), LAMBDA n : term_loop(n.node, n.cur))

RelationalOps == {"LessThan", "LessThanOrEqual", "GreaterThan", "GreaterThanOrEqual"}
EqualityOps == {"Equal", "NotEqual"}

comparison_loop(node, cur) ==
    IF match_token(cur, RelationalOps)
    THEN Then(term(advance(cur)), LAMBDA right :
         comparison_loop(BinaryExpr(node, peek(cur), right.node, TypeU8), right.cur))
    ELSE Ok(node, cur)

comparison(cur) == Then(term(cur), LAMBDA n : comparison_loop(n.node, n.cur))

equality_loop(node, cur) ==
    IF match_token(cur, EqualityOps)
    THEN Then(comparison(advance(cur)), LAMBDA right :
         equality_loop(BinaryExpr(node, peek(cur), right.node, TypeU8), right.cur))
    ELSE Ok(node, cur)

equality(cur) == Then(comparison(cur), LAMBDA n : equality_loop(n.node, n.cur))

expression(cur) == equality(cur)

(***************************************************************************)
(* Declarations and the statements without a block.                        *)
(***************************************************************************)
\* a table that takes every declaration
add_symbol_unchecked(identifier, structure, ty, end_label) ==
    [symbol |-> Symbol(identifier, structure, ty, end_label),
     symbols |-> Append(symbols, Symbol(identifier, structure, ty, end_label)),
     err |-> ""]

\* add_symbol: [symbol, symbols, err]
add_symbol(identifier, structure, ty, end_label) ==
    LET symbol == Symbol(identifier, structure, ty, end_label)
    IN  IF find_symbol(identifier).structure # "None"
        THEN [symbol |-> NoSymbol, symbols |-> symbols, err |-> "already declared"]
        ELSE [symbol |-> symbol, symbols |-> Append(symbols, symbol), err |-> ""]

RECURSIVE count_stars(_)
\* the number of `*` tokens the loop of parse_type consumes from cur on
count_stars(cur) == IF match_token(cur, {"Mul"}) THEN 1 + count_stars(advance(cur)) ELSE 0

RECURSIVE pointer_times(_, _)
pointer_times(ty, n) == IF n = 0 THEN ty ELSE pointer_times(pointer_to(ty), n - 1)

\* parse_type: [ty, cur, err]
parse_type(cur) ==
    Bind(count_stars(cur), LAMBDA pointers_counter :
    LET c1 == cur + pointers_counter
        x == expect(c1, {"Int", "U8", "U32"})
    IN  IF x.err # "" THEN [ty |-> NoType, cur |-> x.cur, err |-> x.err]
        ELSE [ty |-> pointer_times(Ty(peek(c1).type, 0), pointers_counter),
              cur |-> x.cur, err |-> ""])

\* what a declaration gives: the node, the cursor, the table it leaves, the panic
Res(n, cur, syms, e) == [node |-> n, cur |-> cur, symbols |-> syms, err |-> e]

\* var_decl, entered after `let`
var_decl(cur) ==
    LET x1 == expect(cur, {"Identifier"})
        identifier == peek(cur)
        x2 == expect(x1.cur, {"Colon"})
    IN  IF x1.err # "" THEN Res(NoNode, x1.cur, symbols, x1.err)
        ELSE IF x2.err # "" THEN Res(NoNode, x2.cur, symbols, x2.err)
        ELSE Bind(parse_type(x2.cur), LAMBDA t :
             IF t.err # "" THEN Res(NoNode, t.cur, symbols, t.err)
             ELSE Bind(add_symbol(identifier, "Variable", t.ty, <<>>), LAMBDA a :
                  IF a.err # "" THEN Res(NoNode, t.cur, symbols, a.err)
                  ELSE Res(GlobalVar(identifier, t.ty), t.cur, a.symbols, "")))

\* assignment, entered after the identifier
assignment(cur) ==
    LET identifier == previous(cur, 1)
        symbol == find_symbol(identifier)
    IN  IF symbol.structure = "None" THEN Panic("Identifier not declared", cur)
        ELSE IF match_token(cur, {"LeftParen"})
        THEN IF symbol.structure # "Function" THEN Panic("Expected function", advance(cur))
             ELSE function_call(advance(cur))
        ELSE IF symbol.structure # "Variable" THEN Panic("Expected variable", cur)
        ELSE Then(expect(cur, {"Assign"}), LAMBDA x :
             Then(expression(x.cur), LAMBDA e :
             LET tc == type_compatible(e.node.ty, symbol.ty, TRUE)
             IN  IF ~tc.ok THEN Panic("Incompatible types", e.cur)
                 ELSE IF tc.widen_left
                      THEN Ok(AssignStmt(identifier, Widen(e.node)), e.cur)
                      ELSE Ok(AssignStmt(identifier, e.node), e.cur)))

\* return_statement, entered after `return`
return_statement(cur) ==
    IF current_fn.structure = "None"
    THEN Panic("Return statement outside of function", cur)
    ELSE IF current_fn.ty = NoType THEN Panic("Function has no return type", cur)
    ELSE Then(expression(cur), LAMBDA e :
         LET tc == type_compatible(e.node.ty, current_fn.ty, TRUE)
         IN  IF ~tc.ok THEN Panic("Incompatible types", e.cur)
             ELSE Ok(ReturnStmt(IF tc.widen_left THEN Widen(e.node) ELSE e.node,
                                current_fn), e.cur))

\* a test that takes every binary expression
IsBinaryExpr(n) == n.kind = "BinaryExpr"

\* the test if_statement and while_statement make of their condition
IsComparison(n) ==
    /\ n.kind = "BinaryExpr"
    /\ n.operator.type \in EqualityOps \cup RelationalOps

\* `( expression )` of if_statement and while_statement
condition(cur) ==
    Then(expect(cur, {"LeftParen"}), LAMBDA x1 :
    Then(expression(x1.cur), LAMBDA e :
    IF ~IsComparison(e.node) THEN Panic("Expected comparison operator", e.cur)
    ELSE Then(expect(e.cur, {"RightParen"}), LAMBDA x2 : Ok(e.node, x2.cur))))

(***************************************************************************)
(* The handlers in progress.  A frame is a compound_statement whose loop   *)
(* is running (ctx says which handler called it and data holds that        *)
(* handler's locals), or a for_statement waiting for its increment.  The   *)
(* innermost frame is the last.                                            *)
(***************************************************************************)
Frame(ctx, data) == [ctx |-> ctx, nodes |-> <<>>, data |-> data]

Top == stack[Len(stack)]
Below == SubSeq(stack, 1, Len(stack) - 1)

\* the nodes compound_statement follows with a `;`
NeedsSemiColon(n) == n.kind \in {"AssignStmt", "GlobalVar", "FnCall", "ReturnStmt"}

\* what a step leaves: the frames, the cursor, the parsed declarations, the panic
Step(stk, cur, nds, e) == [stack |-> stk, cur |-> cur, nodes |-> nds, err |-> e]
Abort(msg, cur) == Step(stack, cur, nodes, msg)

\* compound_statement up to its loop, on behalf of the handler ctx
OpenBlock(stk, ctx, data, cur) ==
    LET x == expect(cur, {"LeftBrace"})
    IN  IF x.err # "" THEN Abort(x.err, x.cur)
        ELSE Step(Append(stk, Frame(ctx, data)), x.cur, nodes, "")

\* A handler returns `node` to its caller, the innermost frame of stk:
\* parse pushes it, the loop of compound_statement reads the `;` and pushes it,
\* for_statement goes on after its increment.
Deliver(node, stk, cur) ==
    IF stk = <<>> THEN Step(stk, cur, Append(nodes, node), "")
    ELSE LET f == stk[Len(stk)]
             rest == SubSeq(stk, 1, Len(stk) - 1)
         IN  IF f.ctx = "for_increment"
             THEN LET x == expect(cur, {"RightParen"})
                  IN  IF x.err # "" THEN Abort(x.err, x.cur)
                      ELSE OpenBlock(rest, "for",
                                     [initializer |-> f.data.initializer,
                                      condition |-> f.data.condition,
                                      increment |-> node], x.cur)
             ELSE LET x == IF NeedsSemiColon(node) THEN expect(cur, {"SemiColon"})
                           ELSE Ok(NoNode, cur)
                  IN  IF x.err # "" THEN Abort(x.err, x.cur)
                      ELSE Step(Append(rest, [f EXCEPT !.nodes = Append(@, node)]),
                                x.cur, nodes, "")

\* a statement handler that returned r, [node, cur, err], to its caller
Returned(r, stk) == IF r.err # "" THEN Abort(r.err, r.cur) ELSE Deliver(r.node, stk, r.cur)

\* the effect of one step d, with the table and the function context it leaves
Effect(d, syms, cfn) ==
    /\ current' = d.cur
    /\ symbols' = syms
    /\ current_fn' = cfn
    /\ IF d.err # ""
       THEN pc' = "panic" /\ err' = d.err /\ UNCHANGED <<stack, nodes>>
       ELSE stack' = d.stack /\ nodes' = d.nodes /\ UNCHANGED <<pc, err>>
    /\ UNCHANGED <<tokens, registers, label_count, assembly, tasks, results>>

\* single_statement is about to run: in the loop of compound_statement, or as
\* the increment of for_statement
InStatement ==
    /\ pc = "run"
    /\ stack # <<>>
    /\ IF Top.ctx = "for_increment" THEN ~check(current, "RightParen")
       ELSE ~check(current, "RightBrace") /\ ~is_at_end(current)

\* the loop of the compound_statement of handler ctx is over
InBlockEnd(ctx) ==
    /\ pc = "run"
    /\ stack # <<>>
    /\ Top.ctx = ctx
    /\ check(current, "RightBrace") \/ is_at_end(current)

(***************************************************************************)
(* parse and fn_decl.                                                      *)
(***************************************************************************)
\* fn_decl up to the loop of its body: [d, symbols, current_fn], d the step
fn_decl(cur) ==
    LET x1 == expect(cur, {"Fn"})
        x2 == expect(x1.cur, {"Identifier"})
        identifier == peek(x1.cur)
        x3 == expect(x2.cur, {"LeftParen"})
        x4 == expect(x3.cur, {"RightParen"})
        Stop(x, syms) == [d |-> Abort(x.err, x.cur), symbols |-> syms,
                          current_fn |-> current_fn]
    IN  IF x1.err # "" THEN Stop(x1, symbols)
        ELSE IF x2.err # "" THEN Stop(x2, symbols)
        ELSE Bind(add_symbol(identifier, "Function", TypeInt,
                             <<identifier.lexeme, "_end">>), LAMBDA a :
             IF a.err # "" THEN Stop([err |-> a.err, cur |-> x2.cur], symbols)
             ELSE IF x3.err # "" THEN Stop(x3, a.symbols)
             ELSE IF x4.err # "" THEN Stop(x4, a.symbols)
             ELSE Bind(IF match_token(x4.cur, {"Colon"})
                       THEN parse_type(advance(x4.cur))
                       ELSE [ty |-> NoType, cur |-> x4.cur, err |-> ""], LAMBDA t :
                  IF t.err # "" THEN Stop(t, a.symbols)
                  ELSE [d |-> OpenBlock(stack, "fn",
                                        [identifier |-> identifier, ty |-> t.ty], t.cur),
                        symbols |-> a.symbols, current_fn |-> a.symbol]))

\* parse: the loop runs fn_decl
ParseFnDecl ==
    /\ pc = "run" /\ stack = <<>>
    /\ ~is_at_end(current)
    /\ \E r \in {fn_decl(current)} : Effect(r.d, r.symbols, r.current_fn)

\* parse: the loop ends and the nodes are returned
ParseDone ==
    /\ pc = "run" /\ stack = <<>>
    /\ is_at_end(current)
    /\ pc' = "done"
    /\ UNCHANGED <<tokens, current, nodes, symbols, current_fn, stack, err,
                   registers, label_count, assembly, tasks, results>>

\* a check that looks for a statement, not for a return
MissingStatement(ty, statements) == ty # NoType /\ Len(statements) = 0

\* the check fn_decl makes of the body of a function with a return type
MissingReturn(ty, statements) ==
    /\ ty # NoType
    /\ \/ Len(statements) = 0
       \/ statements[Len(statements)].kind # "ReturnStmt"

\* an end of fn_decl that leaves the closing brace of the body unread
fn_decl_end_in_place(cur) ==
    [d |-> Deliver(FnDecl(Top.data.identifier, CompoundStmt(Top.nodes), Top.data.ty),
                   Below, cur),
     current_fn |-> NoSymbol]

\* fn_decl after the body: the final return is required, the context cleared
fn_decl_end(cur) ==
    LET x == expect(cur, {"RightBrace"})
        statements == Top.nodes
        ty == Top.data.ty
    IN  IF x.err # "" THEN [d |-> Abort(x.err, x.cur), current_fn |-> current_fn]
        ELSE IF MissingReturn(ty, statements)
        THEN [d |-> Abort("Function does not return a value", x.cur),
              current_fn |-> current_fn]
        ELSE [d |-> Deliver(FnDecl(Top.data.identifier, CompoundStmt(statements), ty),
                            Below, x.cur),
              current_fn |-> NoSymbol]

FnDeclEnd ==
    /\ InBlockEnd("fn")
    /\ \E r \in {fn_decl_end(current)} : Effect(r.d, symbols, r.current_fn)

(***************************************************************************)
(* single_statement: one action per branch.                                *)
(***************************************************************************)
VarDeclStmt ==
    /\ InStatement
    /\ match_token(current, {"Let"})
    /\ \E r \in {var_decl(advance(current))} :
          \E d \in {Returned(r, stack)} : Effect(d, r.symbols, current_fn)

AssignmentStmt ==
    /\ InStatement
    /\ match_token(current, {"Identifier"})
    /\ \E r \in {assignment(advance(current))} :
          \E d \in {Returned(r, stack)} : Effect(d, symbols, current_fn)

ReturnStatement ==
    /\ InStatement
    /\ match_token(current, {"Return"})
    /\ \E r \in {return_statement(advance(current))} :
          \E d \in {Returned(r, stack)} : Effect(d, symbols, current_fn)

\* if_statement up to the loop of its then-block
IfStatement ==
    /\ InStatement
    /\ match_token(current, {"If"})
    /\ \E c \in {condition(advance(current))} :
          Effect(IF c.err # "" THEN Abort(c.err, c.cur)
                 ELSE OpenBlock(stack, "then", [condition |-> c.node], c.cur),
                 symbols, current_fn)

\* if_statement after the then-block: the else-block, or the node
IfThenEnd ==
    /\ InBlockEnd("then")
    /\ LET x == expect(current, {"RightBrace"})
           then_branch == CompoundStmt(Top.nodes)
       IN  Effect(IF x.err # "" THEN Abort(x.err, x.cur)
                  ELSE IF match_token(x.cur, {"Else"})
                  THEN OpenBlock(Below, "else",
                                 [condition |-> Top.data.condition,
                                  then_branch |-> then_branch], advance(x.cur))
                  ELSE Deliver(IfStmt(Top.data.condition, then_branch, NoNode),
                               Below, x.cur),
                  symbols, current_fn)

IfElseEnd ==
    /\ InBlockEnd("else")
    /\ LET x == expect(current, {"RightBrace"})
       IN  Effect(IF x.err # "" THEN Abort(x.err, x.cur)
                  ELSE Deliver(IfStmt(Top.data.condition, Top.data.then_branch,
                                      CompoundStmt(Top.nodes)), Below, x.cur),
                  symbols, current_fn)

\* while_statement up to the loop of its body
WhileStatement ==
    /\ InStatement
    /\ match_token(current, {"While"})
    /\ \E c \in {condition(advance(current))} :
          Effect(IF c.err # "" THEN Abort(c.err, c.cur)
                 ELSE OpenBlock(stack, "while", [condition |-> c.node], c.cur),
                 symbols, current_fn)

WhileEnd ==
    /\ InBlockEnd("while")
    /\ LET x == expect(current, {"RightBrace"})
       IN  Effect(IF x.err # "" THEN Abort(x.err, x.cur)
                  ELSE Deliver(WhileStmt(Top.data.condition, CompoundStmt(Top.nodes)),
                               Below, x.cur),
                  symbols, current_fn)

\* for_statement: the initializer, entered after `(`
for_initializer(cur) ==
    IF match_token(cur, {"SemiColon"}) THEN Ok(NoNode, advance(cur))
    ELSE IF match_token(cur, {"Identifier"})
    THEN Then(assignment(advance(cur)), LAMBDA a :
         Then(expect(a.cur, {"SemiColon"}), LAMBDA x : Ok(a.node, x.cur)))
    ELSE Panic("Expected identifier", cur)

\* for_statement: the condition and its `;`
for_condition(cur) ==
    Then(IF check(cur, "SemiColon")
         THEN Ok(LiteralExpr([lit |-> "Integer", v |-> Small(1)], TypeU8), cur)
         ELSE expression(cur), LAMBDA c :
    Then(expect(c.cur, {"SemiColon"}), LAMBDA x : Ok(c.node, x.cur)))

\* for_statement up to its increment
ForStatement ==
    /\ InStatement
    /\ match_token(current, {"For"})
    /\ \E x \in {expect(advance(current), {"LeftParen"})} :
       \E i \in {IF x.err # "" THEN x ELSE for_initializer(x.cur)} :
       \E c \in {IF i.err # "" THEN i ELSE for_condition(i.cur)} :
          Effect(IF c.err # "" THEN Abort(c.err, c.cur)
                 ELSE Step(Append(stack, Frame("for_increment",
                                               [initializer |-> i.node,
                                                condition |-> c.node])),
                           c.cur, nodes, ""),
                 symbols, current_fn)

\* for_statement without an increment: `)` and the body
ForNoIncrement ==
    /\ pc = "run" /\ stack # <<>>
    /\ Top.ctx = "for_increment"
    /\ check(current, "RightParen")
    /\ Effect(Deliver(NoNode, stack, current), symbols, current_fn)

\* the while loop for_statement builds
Desugar(initializer, cond, increment, body) ==
    LET looped == IF increment.kind # "None" THEN CompoundStmt(<<body, increment>>)
                  ELSE body
        loop == WhileStmt(cond, looped)
    IN  IF initializer.kind # "None" THEN CompoundStmt(<<initializer, loop>>) ELSE loop

\* for_statement after its body
ForEnd ==
    /\ InBlockEnd("for")
    /\ LET x == expect(current, {"RightBrace"})
           d == Top.data
       IN  Effect(IF x.err # "" THEN Abort(x.err, x.cur)
                  ELSE Deliver(Desugar(d.initializer, d.condition, d.increment,
                                       CompoundStmt(Top.nodes)), Below, x.cur),
                  symbols, current_fn)

\* single_statement on `fn`: the token is consumed and fn_decl expects it again
NestedFnDecl ==
    /\ InStatement
    /\ match_token(current, {"Fn"})
    /\ \E r \in {fn_decl(advance(current))} : Effect(r.d, r.symbols, r.current_fn)

StatementStarts == {"Let", "Identifier", "If", "While", "For", "Fn", "Return"}

\* single_statement on any other token
UnexpectedStatement ==
    /\ InStatement
    /\ ~match_token(current, StatementStarts)
    /\ Effect(Abort("Expected statement", current), symbols, current_fn)

(***************************************************************************)
(* The code generator (src/src/codegen.rs).  The driver hands the nodes    *)
(* parse() returned to CodeGen::new and calls generate().  The fields of   *)
(* struct CodeGen are registers, label_count and assembly; the assembly    *)
(* text is kept as the sequence of its lines, a line as its instruction    *)
(* and operands.  generate_node is recursive: `tasks` is what the calls in *)
(* progress still have to do, next first, and `results` holds the          *)
(* registers the finished calls returned to callers that bind them.        *)
(***************************************************************************)
NumRegisters == 4

\* operands of a line: REGISTER_NAMES[r] and its byte and dword names, the
\* fixed registers, immediates, symbols, (register), L<n>, <name>_end
Reg(r) == [k |-> "reg", n |-> r, w |-> "q"]
ByteReg(r) == [k |-> "reg", n |-> r, w |-> "b"]
DwordReg(r) == [k |-> "reg", n |-> r, w |-> "d"]
Fixed(name) == [k |-> "fixed", name |-> name]
Imm(v) == [k |-> "imm", v |-> v]
Sym(name) == [k |-> "sym", name |-> name]
Mem(r) == [k |-> "mem", n |-> r]
Lab(n) == [k |-> "L", n |-> n]
EndLab(name) == [k |-> "end", name |-> name]
NoOperand == [k |-> "none"]

Asm(ins, src, dst) == [ins |-> ins, src |-> src, dst |-> dst]

\* self, the fields the methods read and write
Self == [registers |-> registers, label_count |-> label_count, assembly |-> assembly]

Emit(st, lines) == [st EXCEPT !.assembly = @ \o lines]

\* what a method gives: self as it leaves it, the register it returns, the panic
Out(st, r) == [st |-> st, r |-> r, err |-> ""]
Fail(st, msg) == [st |-> st, r |-> 0, err |-> msg]

InUse(regs) == Cardinality({i \in DOMAIN regs : regs[i]})
AllFree(regs) == \A i \in DOMAIN regs : ~regs[i]

\* an allocator that always hands out register 0
allocate_register_zero(st) == Out([st EXCEPT !.registers[0] = TRUE], 0)

allocate_register(st) ==
    LET available == {i \in 0..(NumRegisters - 1) : ~st.registers[i]}
    IN  IF available = {} THEN Fail(st, "No available register")
        ELSE LET i == CHOOSE i \in available : \A j \in available : i <= j
             IN  Out([st EXCEPT !.registers[i] = TRUE], i)

free_register(st, register) == [st EXCEPT !.registers[register] = FALSE]

free_all_registers(st) == [st EXCEPT !.registers = [i \in DOMAIN @ |-> FALSE]]

\* generate: the printint routine
preamble(st) ==
    Emit(free_all_registers(st),
         <<Asm(".text", NoOperand, NoOperand),
           Asm("label", NoOperand, Sym(".LC0")),
           Asm(".string", NoOperand, NoOperand),
           Asm("label", NoOperand, Sym("printint")),
           Asm("pushq", NoOperand, Fixed("%rbp")),
           Asm("movq", Fixed("%rsp"), Fixed("%rbp")),
           Asm("subq", Imm(Small(16)), Fixed("%rsp")),
           Asm("movl", Fixed("%edi"), Fixed("-4(%rbp)")),
           Asm("movl", Fixed("-4(%rbp)"), Fixed("%eax")),
           Asm("movl", Fixed("%eax"), Fixed("%esi")),
           Asm("leaq", Sym(".LC0"), Fixed("%rdi")),
           Asm("movl", Imm(Small(0)), Fixed("%eax")),
           Asm("call", NoOperand, Sym("printf@PLT")),
           Asm("nop", NoOperand, NoOperand),
           Asm("leave", NoOperand, NoOperand),
           Asm("ret", NoOperand, NoOperand)>>)

\* load: value is the literal as i64, the same number below 2^63
load(st, value) ==
    LET a == allocate_register(st)
    IN  IF a.err # "" THEN a
        ELSE Out(Emit(a.st, <<Asm("movq", Imm(value), Reg(a.r))>>), a.r)

load_global(st, identifier, ty) ==
    LET a == allocate_register(st)
    IN  IF a.err # "" THEN a
        ELSE IF ty \in {TypeInt, TypePInt, TypePU8, TypePU32, TypeU32}
        THEN Out(Emit(a.st, <<Asm("movq", Sym(identifier), Reg(a.r))>>), a.r)
        ELSE IF ty = TypeU8
        THEN Out(Emit(a.st, <<Asm("movzbq", Sym(identifier), Reg(a.r))>>), a.r)
        ELSE IF ty = TypeU32
        THEN Out(Emit(a.st, <<Asm("movzbl", Sym(identifier), Reg(a.r))>>), a.r)
        ELSE Fail(a.st, "Unexpected type")

store(st, register, identifier, ty) ==
    IF ty \in {TypeInt, TypePInt, TypePU8, TypePU32}
    THEN Out(Emit(st, <<Asm("movq", Reg(register), Sym(identifier))>>), 0)
    ELSE IF ty = TypeU8
    THEN Out(Emit(st, <<Asm("movb", ByteReg(register), Sym(identifier))>>), 0)
    ELSE IF ty = TypeU32
    THEN Out(Emit(st, <<Asm("movl", DwordReg(register), Sym(identifier))>>), 0)
    ELSE Fail(st, "Unexpected type")

widen(st, register, old_ty, new_ty) == Out(st, register)

define_global(st, identifier, ty) ==
    Emit(st, <<Asm(".comm", Sym(identifier), Imm(Small(size(ty))))>>)

\* an add that keeps both of its operands
add_keeping(st, left, right) == Out(Emit(st, <<Asm("addq", Reg(left), Reg(right))>>), right)

add(st, left, right) ==
    Out(free_register(Emit(st, <<Asm("addq", Reg(left), Reg(right))>>), left), right)

subtract(st, left, right) ==
    Out(free_register(Emit(st, <<Asm("subq", Reg(right), Reg(left))>>), right), left)

multiply(st, left, right) ==
    Out(free_register(Emit(st, <<Asm("imulq", Reg(left), Reg(right))>>), left), right)

divide(st, left, right) ==
    Out(free_register(Emit(st, <<Asm("movq", Reg(left), Fixed("%rax")),
                                 Asm("cqo", NoOperand, NoOperand),
                                 Asm("idivq", NoOperand, Reg(right)),
                                 Asm("movq", Fixed("%rax"), Reg(left))>>), right), left)

\* the inverted jumps of compare_and_jump and the sets of compare_and_set
\* the jumps on the condition itself
DirectJumpInstructions ==
    [Equal |-> "je", NotEqual |-> "jne", LessThan |-> "jl", LessThanOrEqual |-> "jle",
     GreaterThan |-> "jg", GreaterThanOrEqual |-> "jge"]

JumpInstructions ==
    [Equal |-> "jne", NotEqual |-> "je", LessThan |-> "jge", LessThanOrEqual |-> "jg",
     GreaterThan |-> "jle", GreaterThanOrEqual |-> "jl"]

SetInstructions ==
    [Equal |-> "sete", NotEqual |-> "setne", LessThan |-> "setl",
     LessThanOrEqual |-> "setle", GreaterThan |-> "setg", GreaterThanOrEqual |-> "setge"]

compare_and_jump(st, operation, left, right, label) ==
    IF operation \notin DOMAIN JumpInstructions THEN Fail(st, "Unexpected token")
    ELSE Out(free_all_registers(
                Emit(st, <<Asm("cmpq", Reg(right), Reg(left)),
                           Asm(JumpInstructions[operation], NoOperand, Lab(label))>>)), 0)

compare_and_set(st, operation, left, right) ==
    IF operation \notin DOMAIN SetInstructions THEN Fail(st, "Unexpected token")
    ELSE Out(free_register(
                Emit(st, <<Asm("cmpq", Reg(right), Reg(left)),
                           Asm(SetInstructions[operation], NoOperand, ByteReg(right)),
                           Asm("movzbq", ByteReg(right), Reg(right))>>), left), right)

\* a counter that hands out the same label again
label_again(st) == Out(st, st.label_count + 1)

label(st) == Out([st EXCEPT !.label_count = @ + 1], st.label_count + 1)

generate_label(st, l) == Emit(st, <<Asm("label", NoOperand, Lab(l))>>)

jump(st, l) == Emit(st, <<Asm("jmp", NoOperand, Lab(l))>>)

function_preamble(st, name) ==
    Emit(st, <<Asm(".global", NoOperand, Sym("main")),
               Asm(".type", NoOperand, Sym(name)),
               Asm("label", NoOperand, Sym(name)),
               Asm("pushq", NoOperand, Fixed("%rbp")),
               Asm("movq", Fixed("%rsp"), Fixed("%rbp"))>>)

function_postamble(st, fn_name) ==
    Emit(st, <<Asm("label", NoOperand, EndLab(fn_name)),
               Asm("popq", NoOperand, Fixed("%rbp")),
               Asm("ret", NoOperand, NoOperand)>>)

\* function_call after its argument is in `register`, and the FnCall arm of
\* generate_node after it: printint gives its result register back
call_function(st, identifier, register) ==
    LET a == allocate_register(st)
    IN  IF a.err # "" THEN a
        ELSE LET called == free_register(
                               Emit(a.st, <<Asm("movq", Reg(register), Fixed("%rdi")),
                                            Asm("call", NoOperand, Sym(identifier.lexeme)),
                                            Asm("movq", Fixed("%rax"), Reg(a.r))>>),
                               register)
             IN  IF identifier.lexeme = "printint"
                 THEN Out(free_register(called, a.r), 0)
                 ELSE Out(called, a.r)

\* return_stmt after its expression is in `register`
return_stmt(st, register) ==
    Out(free_register(Emit(st, <<Asm("movq", Reg(register), Fixed("%rax"))>>), register), 0)

address_of(st, ident) ==
    LET a == allocate_register(st)
    IN  IF a.err # "" THEN a
        ELSE Out(Emit(a.st, <<Asm("leaq", Sym(ident), Reg(a.r))>>), a.r)

dereference(st, register, ty) ==
    IF ty \in {TypePInt, TypePU32}
    THEN Out(Emit(st, <<Asm("movq", Mem(register), Reg(register))>>), register)
    ELSE IF ty = TypePU8
    THEN Out(Emit(st, <<Asm("movzbq", Mem(register), Reg(register))>>), register)
    ELSE Fail(st, "Unexpected type")

(***************************************************************************)
(* generate_node.  A task is a call of generate_node that has not started  *)
(* (`used`: the caller binds the register it returns) or the rest of a     *)
(* method whose inner calls of generate_node are under way.  The rest of a *)
(* method that returns a register keeps `used` and `before`, the number of *)
(* registers that were in use when the call of generate_node started.      *)
(***************************************************************************)
NodeTask(n, used) == [t |-> "node", node |-> n, used |-> used]
BinaryTask(op, used, before) ==
    [t |-> "binary", operator |-> op, used |-> used, before |-> before]
NegateLoadTask == [t |-> "negate_load"]
NegateSubtractTask(used, before) ==
    [t |-> "negate_subtract", used |-> used, before |-> before]
WidenTask(old_ty, new_ty, used, before) ==
    [t |-> "widen", old_ty |-> old_ty, new_ty |-> new_ty, used |-> used,
     before |-> before]
DereferenceTask(ty, used, before) ==
    [t |-> "dereference", ty |-> ty, used |-> used, before |-> before]
FunctionCallTask(identifier, used, before) ==
    [t |-> "function_call", identifier |-> identifier, used |-> used,
     before |-> before]
StoreTask(identifier, ty) == [t |-> "store", identifier |-> identifier, ty |-> ty]
ReturnTask == [t |-> "return_stmt"]
CompareAndJumpTask(op, l) == [t |-> "compare_and_jump", operator |-> op, label |-> l]
FreeAllTask == [t |-> "free_all_registers"]
JumpTask(l) == [t |-> "jump", label |-> l]
\* closes: the label is the last line of its if or while statement
LabelTask(l, closes) == [t |-> "generate_label", label |-> l, closes |-> closes]
PostambleTask(name) == [t |-> "function_postamble", name |-> name]

\* a loop over the statements that stops after a return
StatementsUntilReturn(statements) ==
    LET returns == {i \in DOMAIN statements : statements[i].kind = "ReturnStmt"}
        last == IF returns = {} THEN Len(statements)
                ELSE CHOOSE i \in returns : \A j \in returns : i <= j
    IN  [i \in 1..last |-> NodeTask(statements[i], FALSE)]

\* the CompoundStmt arm: every statement in turn, its value dropped
StatementTasks(statements) ==
    [i \in 1..Len(statements) |-> NodeTask(statements[i], FALSE)]

\* the arms of generate_node that start with an inner call: the inner calls
\* and the rest of the arm
generate_node(n, used, before) ==
    CASE n.kind = "BinaryExpr" ->
            <<NodeTask(n.left, TRUE), NodeTask(n.right, TRUE),
              BinaryTask(n.operator.type, used, before)>>
      [] n.kind = "UnaryExpr" /\ n.operator.type = "Sub" ->
            <<NodeTask(n.right, TRUE), NegateLoadTask, NegateSubtractTask(used, before)>>
      [] n.kind = "UnaryExpr" /\ n.operator.type = "Widen" ->
            <<NodeTask(n.right, TRUE), WidenTask(n.right.ty, n.ty, used, before)>>
      [] n.kind = "UnaryExpr" /\ n.operator.type = "Mul" ->
            <<NodeTask(n.right, TRUE), DereferenceTask(n.right.ty, used, before)>>
      [] n.kind = "AssignStmt" ->
            <<NodeTask(n.expr, TRUE), StoreTask(n.identifier.lexeme, n.expr.ty)>>
      [] n.kind = "CompoundStmt" -> StatementTasks(n.statements)
      [] n.kind = "FnCall" ->
            <<NodeTask(n.expr, TRUE), FunctionCallTask(n.identifier, used, before)>>
      [] n.kind = "ReturnStmt" -> <<NodeTask(n.expr, TRUE), ReturnTask>>

\* an if that defines its end label before its false label
IfTasksEndFirst(cond, then_branch, else_branch, false_label, end_label) ==
    <<NodeTask(cond.left, TRUE), NodeTask(cond.right, TRUE),
      CompareAndJumpTask(cond.operator.type, false_label), FreeAllTask,
      NodeTask(then_branch, FALSE), FreeAllTask, JumpTask(end_label),
      LabelTask(end_label, FALSE)>>
        \o (IF else_branch.kind # "None"
            THEN <<NodeTask(else_branch, FALSE), FreeAllTask>> ELSE <<>>)
        \o <<LabelTask(false_label, TRUE)>>

\* if_stmt after its labels and the match of its condition
IfTasks(cond, then_branch, else_branch, false_label, end_label) ==
    <<NodeTask(cond.left, TRUE), NodeTask(cond.right, TRUE),
      CompareAndJumpTask(cond.operator.type, false_label), FreeAllTask,
      NodeTask(then_branch, FALSE), FreeAllTask, JumpTask(end_label),
      LabelTask(false_label, FALSE)>>
        \o (IF else_branch.kind # "None"
            THEN <<NodeTask(else_branch, FALSE), FreeAllTask>> ELSE <<>>)
        \o <<LabelTask(end_label, TRUE)>>

\* if_stmt: [st, tasks, err]
if_stmt(st, cond, then_branch, else_branch) ==
    LET false_label == label(st)
        end_label == label(false_label.st)
    IN  IF cond.kind # "BinaryExpr"
        THEN [st |-> end_label.st, tasks |-> <<>>, err |-> "Unexpected token"]
        ELSE [st |-> end_label.st,
              tasks |-> IfTasks(cond, then_branch, else_branch,
                                false_label.r, end_label.r),
              err |-> ""]

\* a while that runs its body once: no jump back to the start label
WhileTasksOnce(cond, body, start_label, end_label) ==
    <<NodeTask(cond.left, TRUE), NodeTask(cond.right, TRUE),
      CompareAndJumpTask(cond.operator.type, end_label), FreeAllTask,
      NodeTask(body, FALSE), FreeAllTask, LabelTask(end_label, TRUE)>>

\* while_stmt after its start label and the match of its condition
WhileTasks(cond, body, start_label, end_label) ==
    <<NodeTask(cond.left, TRUE), NodeTask(cond.right, TRUE),
      CompareAndJumpTask(cond.operator.type, end_label), FreeAllTask,
      NodeTask(body, FALSE), FreeAllTask, JumpTask(start_label),
      LabelTask(end_label, TRUE)>>

\* while_stmt: [st, tasks, err]
while_stmt(st, cond, body) ==
    LET start_label == label(st)
        end_label == label(start_label.st)
        started == generate_label(end_label.st, start_label.r)
    IN  IF cond.kind # "BinaryExpr"
        THEN [st |-> started, tasks |-> <<>>, err |-> "Unexpected token"]
        ELSE [st |-> started,
              tasks |-> WhileTasks(cond, body, start_label.r, end_label.r),
              err |-> ""]

(***************************************************************************)
(* The steps of the generator.                                             *)
(***************************************************************************)
Generating == pc = "gen" /\ tasks # <<>>
Task == Head(tasks)
Rest == Tail(tasks)
OnNode(kinds) == Generating /\ Task.t = "node" /\ Task.node.kind \in kinds
OnTask(t) == Generating /\ Task.t = t

\* the registers the last two finished calls returned, and the stack without
Right == results[Len(results)]
Left == results[Len(results) - 1]
Pop(n) == SubSeq(results, 1, Len(results) - n)

\* the effect of one step: self, the tasks and results it leaves, the panic
GenEffect(st, tks, res, e) ==
    /\ registers' = st.registers
    /\ label_count' = st.label_count
    /\ assembly' = st.assembly
    /\ tasks' = tks
    /\ results' = res
    /\ IF e # "" THEN pc' = "panic" /\ err' = e ELSE UNCHANGED <<pc, err>>
    /\ UNCHANGED <<tokens, current, nodes, symbols, current_fn, stack>>

\* a method returns o to the caller of generate_node, res the results left
Returns(o, res, used) ==
    IF o.err # "" THEN GenEffect(o.st, tasks, results, o.err)
    ELSE GenEffect(o.st, Rest, IF used THEN Append(res, o.r) ELSE res, "")

\* CodeGen::new(nodes) and generate up to its loop
Generate ==
    /\ pc = "done"
    /\ pc' = "gen"
    /\ \E st \in {preamble([registers |-> [i \in 0..(NumRegisters - 1) |-> FALSE],
                            label_count |-> 0, assembly |-> <<>>])} :
          /\ registers' = st.registers
          /\ label_count' = st.label_count
          /\ assembly' = st.assembly
    /\ tasks' = StatementTasks(nodes)
    /\ results' = <<>>
    /\ UNCHANGED <<tokens, current, nodes, symbols, current_fn, stack, err>>

\* generate returns the assembly
GenerateDone ==
    /\ pc = "gen" /\ tasks = <<>>
    /\ pc' = "end"
    /\ UNCHANGED <<tokens, current, nodes, symbols, current_fn, stack, err,
                   registers, label_count, assembly, tasks, results>>

\* the arms of generate_node that start with an inner call
GenNode ==
    /\ OnNode({"BinaryExpr", "UnaryExpr", "AssignStmt", "CompoundStmt", "FnCall",
               "ReturnStmt"})
    /\ Task.node.kind = "UnaryExpr" => Task.node.operator.type # "Ampersand"
    /\ GenEffect(Self, generate_node(Task.node, Task.used, InUse(registers)) \o Rest,
                 results, "")

GenLoad ==
    /\ OnNode({"LiteralExpr"})
    /\ Task.node.value.lit \in {"U8", "Integer"}
    /\ Returns(load(Self, Task.node.value.v), results, Task.used)

GenLoadGlobal ==
    /\ OnNode({"LiteralExpr"})
    /\ Task.node.value.lit = "Identifier"
    /\ Returns(load_global(Self, Task.node.value.name, Task.node.ty), results, Task.used)

GenAddressOf ==
    /\ OnNode({"UnaryExpr"})
    /\ Task.node.operator.type = "Ampersand"
    /\ Returns(address_of(Self, Task.node.right.value.name), results, Task.used)

GenDefineGlobal ==
    /\ OnNode({"GlobalVar"})
    /\ GenEffect(define_global(Self, Task.node.identifier.lexeme, Task.node.ty), Rest,
                 results, "")

GenIfStmt ==
    /\ OnNode({"IfStmt"})
    /\ \E o \in {if_stmt(Self, Task.node.condition, Task.node.then_branch,
                         Task.node.else_branch)} :
          GenEffect(o.st, IF o.err # "" THEN tasks ELSE o.tasks \o Rest, results, o.err)

GenWhileStmt ==
    /\ OnNode({"WhileStmt"})
    /\ \E o \in {while_stmt(Self, Task.node.condition, Task.node.body)} :
          GenEffect(o.st, IF o.err # "" THEN tasks ELSE o.tasks \o Rest, results, o.err)

\* function up to its body
GenFunction ==
    /\ OnNode({"FnDecl"})
    /\ GenEffect(function_preamble(Self, Task.node.identifier.lexeme),
                 <<NodeTask(Task.node.body, FALSE),
                   PostambleTask(Task.node.identifier.lexeme)>> \o Rest,
                 results, "")

GenFunctionPostamble ==
    /\ OnTask("function_postamble")
    /\ GenEffect(function_postamble(Self, Task.name), Rest, results, "")

GenAdd ==
    /\ OnTask("binary") /\ Task.operator = "Add"
    /\ Returns(add(Self, Left, Right), Pop(2), Task.used)

GenSubtract ==
    /\ OnTask("binary") /\ Task.operator = "Sub"
    /\ Returns(subtract(Self, Left, Right), Pop(2), Task.used)

GenMultiply ==
    /\ OnTask("binary") /\ Task.operator = "Mul"
    /\ Returns(multiply(Self, Left, Right), Pop(2), Task.used)

GenDivide ==
    /\ OnTask("binary") /\ Task.operator = "Div"
    /\ Returns(divide(Self, Left, Right), Pop(2), Task.used)

GenCompareAndSet ==
    /\ OnTask("binary") /\ Task.operator \in DOMAIN SetInstructions
    /\ Returns(compare_and_set(Self, Task.operator, Left, Right), Pop(2), Task.used)

\* the Sub arm: load(0, ty), its register dropped
GenNegateLoad ==
    /\ OnTask("negate_load")
    /\ Returns(load(Self, Small(0)), results, FALSE)

\* the Sub arm: subtract(0, right_node)
GenNegateSubtract ==
    /\ OnTask("negate_subtract")
    /\ Returns(subtract(Self, 0, Right), Pop(1), Task.used)

GenWiden ==
    /\ OnTask("widen")
    /\ Returns(widen(Self, Right, Task.old_ty, Task.new_ty), Pop(1), Task.used)

GenDereference ==
    /\ OnTask("dereference")
    /\ Returns(dereference(Self, Right, Task.ty), Pop(1), Task.used)

\* the AssignStmt arm after its expression: store and free_register
GenStore ==
    /\ OnTask("store")
    /\ \E o \in {store(Self, Right, Task.identifier, Task.ty)} :
          Returns(IF o.err # "" THEN o ELSE Out(free_register(o.st, Right), 0),
                  Pop(1), FALSE)

GenFunctionCall ==
    /\ OnTask("function_call")
    /\ Returns(call_function(Self, Task.identifier, Right), Pop(1), Task.used)

GenReturnStmt ==
    /\ OnTask("return_stmt")
    /\ Returns(return_stmt(Self, Right), Pop(1), FALSE)

GenCompareAndJump ==
    /\ OnTask("compare_and_jump")
    /\ Returns(compare_and_jump(Self, Task.operator, Left, Right, Task.label), Pop(2),
               FALSE)

GenFreeAllRegisters ==
    /\ OnTask("free_all_registers")
    /\ GenEffect(free_all_registers(Self), Rest, results, "")

GenJump ==
    /\ OnTask("jump")
    /\ GenEffect(jump(Self, Task.label), Rest, results, "")

GenLabel ==
    /\ OnTask("generate_label")
    /\ GenEffect(generate_label(Self, Task.label), Rest, results, "")

(***************************************************************************)
(* The inputs: token sequences as the lexer hands them over, each ending   *)
(* with EOF.  Every program declares the globals c: u8, d: u32, e: int,    *)
(* p: *u8 and q: *u32 in a first function and holds the statement under    *)
(* test in a second one.                                                   *)
(***************************************************************************)
Seq1(ty) == << Tok(ty) >>
Toks(tys) == [i \in 1..Len(tys) |-> Tok(tys[i])]

LetDecl(name, tys) == <<Tok("Let"), Ident(name), Tok("Colon")>> \o Toks(tys)
                          \o Seq1("SemiColon")

FnTokens(name, rty, body) ==
    <<Tok("Fn"), Ident(name), Tok("LeftParen"), Tok("RightParen")>>
        \o (IF rty = <<>> THEN <<>> ELSE Seq1("Colon") \o Toks(rty))
        \o Seq1("LeftBrace") \o body \o Seq1("RightBrace")

Globals ==
    LetDecl("c", <<"U8">>) \o LetDecl("d", <<"U32">>) \o LetDecl("e", <<"Int">>)
        \o LetDecl("p", <<"Mul", "U8">>) \o LetDecl("q", <<"Mul", "U32">>)

Header == FnTokens("init", <<>>, Globals)

VarNames == {"c", "d", "e", "p", "q"}
ArithOps == {"Add", "Sub", "Mul", "Div"}
BinaryOps == ArithOps \cup EqualityOps \cup RelationalOps

\* the literals on both sides of each width boundary
BoundaryLits == {U64(0, 255), U64(0, 256), U64(0, 65535), U64(1, 0),
                 U64(65535, 65535), U64(65536, 0)}

Operands == {<<Ident(v)>> : v \in VarNames} \cup {<<IntTok(Small(n))>> : n \in 0..MaxSmallLit}

UnaryExprs ==
    {<<Tok(o), Ident(v)>> : o \in {"Sub", "Ampersand", "Mul"}, v \in VarNames}
        \cup {<<Tok("Mul"), Tok("Ampersand"), Ident(v)>> : v \in {"c", "d"}}
        \cup {<<Tok("Sub"), IntTok(Small(1))>>, <<Tok("Mul"), IntTok(Small(1))>>,
              <<Tok("Ampersand"), IntTok(Small(1))>>}

CallExprs ==
    {<<Ident(f), Tok("LeftParen")>> \o a \o <<Tok("RightParen")>> :
        f \in {"printint", "init", "c"}, a \in {<<Ident("c")>>, <<Ident("e")>>}}

BinaryExprs == {a \o <<Tok(o)>> \o b : a \in Operands, o \in BinaryOps, b \in Operands}

ChainExprs ==
    {<<Ident("c"), Tok(o1), Ident("d"), Tok(o2), Ident("e")>> :
        o1 \in BinaryOps, o2 \in BinaryOps}

SimpleExprs ==
    Operands \cup {<<IntTok(n)>> : n \in BoundaryLits} \cup UnaryExprs \cup CallExprs
        \cup {<<Ident("z")>>, <<Ident("init")>>, <<Tok("SemiColon")>>}

Exprs == SimpleExprs \cup BinaryExprs \cup ChainExprs

\* the expressions assigned and returned: one of each type, and the sums
TypedExprs ==
    SimpleExprs \cup {a \o <<Tok("Add")>> \o b : a \in Operands, b \in Operands}

\* the expressions that hold three, four and five values at once
DeepExprs ==
    {<<Ident("c"), Tok("Add"), Ident("c"), Tok("Mul"), Ident("c")>>,
     <<Ident("c"), Tok("LessThan"), Ident("c"), Tok("Add"), Ident("c"), Tok("Mul"),
       Ident("c")>>,
     <<Ident("c"), Tok("Equal"), Ident("c"), Tok("LessThan"), Ident("c"), Tok("Add"),
       Ident("c"), Tok("Mul"), Ident("c")>>}

CallStmts ==
    {<<Ident("printint"), Tok("LeftParen")>> \o x
        \o <<Tok("RightParen"), Tok("SemiColon")>> : x \in Exprs \cup DeepExprs}
    \cup {<<Ident("init"), Tok("LeftParen")>> \o x
            \o <<Tok("RightParen"), Tok("SemiColon")>> : x \in Operands \cup UnaryExprs}

AssignStmts == {<<Ident(v), Tok("Assign")>> \o x \o <<Tok("SemiColon")>> :
                  v \in VarNames \cup {"z", "init"}, x \in TypedExprs}

Braces == <<Tok("LeftBrace"), Tok("RightBrace")>>

CondStmts ==
    {<<Tok(k), Tok("LeftParen")>> \o x \o <<Tok("RightParen")>> \o Braces :
        k \in {"If", "While"}, x \in Exprs}
    \cup {<<Tok("If"), Tok("LeftParen")>> \o x \o <<Tok("RightParen")>> \o Braces
            \o <<Tok("Else")>> \o Braces : x \in SimpleExprs \cup ChainExprs}

Incr == <<Ident("c"), Tok("Assign"), Ident("c"), Tok("Add"), IntTok(Small(1))>>
CLess == <<Ident("c"), Tok("LessThan"), IntTok(Small(1))>>

ForStmts ==
    {<<Tok("For"), Tok("LeftParen")>> \o i \o x \o <<Tok("SemiColon")>> \o n
        \o <<Tok("RightParen")>> \o b :
        i \in {<<Tok("SemiColon")>>, Incr \o <<Tok("SemiColon")>>, <<Tok("Let")>>},
        x \in {<<>>, CLess, <<Ident("c")>>, <<Ident("c"), Tok("Add"), IntTok(Small(1))>>},
        n \in {<<>>, Incr, <<Ident("c"), Tok("Assign"), Ident("e")>>,
               LetDecl("z", <<"U8">>), <<Tok("SemiColon")>>},
        b \in {Braces, <<Tok("LeftBrace")>> \o Incr \o <<Tok("SemiColon"),
                                                          Tok("RightBrace")>>}}

Block(body) == Seq1("LeftBrace") \o body \o Seq1("RightBrace")
CallInit == <<Ident("init"), Tok("LeftParen"), Ident("c"), Tok("RightParen"),
              Tok("SemiColon")>>

RECURSIVE Repeat(_, _)
Repeat(s, k) == IF k = 0 THEN <<>> ELSE s \o Repeat(s, k - 1)

\* statements with statements inside and after them
SequenceStmts ==
    {Repeat(CallInit, k) \o Incr \o Seq1("SemiColon") : k \in 1..MaxCalls}
    \cup {<<Tok("If"), Tok("LeftParen")>> \o CLess \o Seq1("RightParen") \o Block(t)
             \o Seq1("Else") \o Block(f) \o a :
             t \in {Incr \o Seq1("SemiColon"), CallInit},
             f \in {<<>>, Incr \o Seq1("SemiColon"), CallInit},
             a \in {<<>>, Incr \o Seq1("SemiColon")}}
    \cup {<<Tok("While"), Tok("LeftParen")>> \o CLess \o Seq1("RightParen") \o Block(b)
             \o a :
             b \in {Incr \o Seq1("SemiColon"), CallInit,
                    <<Tok("While"), Tok("LeftParen")>> \o CLess \o Seq1("RightParen")
                        \o Braces},
             a \in {<<>>, Incr \o Seq1("SemiColon")}}
    \cup {<<Ident("c"), Tok("Assign"), Tok("Sub"), Ident("c"), Tok("SemiColon")>>
             \o Incr \o Seq1("SemiColon")}

ReturnStmts == {Seq1("Return") \o x \o Seq1("SemiColon") : x \in TypedExprs}

\* declarations of fresh and of taken names
DeclStmts ==
    {LetDecl(n, t) : n \in {"c", "z", "printint", "init", "main"},
                     t \in {<<"U8">>, <<"Int">>, <<"Mul", "Mul", "U32">>, <<"Colon">>}}
    \cup {<<Tok("Fn")>> \o FnTokens(n, <<>>, <<>>) :
            n \in {"c", "z", "printint", "init", "main"}}
    \cup {LetDecl("z", <<"U8">>) \o LetDecl(n, <<"U32">>) : n \in {"z", "y"}}

\* statements no handler accepts, and the statements cut short
BrokenStmts ==
    {<<Tok("SemiColon")>>, <<Tok("Integer")>>, <<Tok("Else")>>, <<Tok("Let")>>,
     <<Ident("c")>>, <<Ident("c"), Tok("Assign")>>, <<Tok("If")>>, <<Tok("While")>>,
     <<Tok("For")>>, <<Tok("Fn")>>, <<Tok("Return")>>, <<Tok("LeftBrace")>>,
     <<Ident("c"), Tok("Assign"), IntTok(Small(1))>>,
     <<Tok("If"), Tok("LeftParen")>> \o CLess \o <<Tok("RightParen"), Tok("LeftBrace")>>}

RECURSIVE Nest(_, _)
\* s inside k blocks `if (c == c) { }`
Nest(s, k) ==
    IF k = 0 THEN s
    ELSE <<Tok("If"), Tok("LeftParen"), Ident("c"), Tok("Equal"), Ident("c"),
           Tok("RightParen"), Tok("LeftBrace")>> \o Nest(s, k - 1) \o Seq1("RightBrace")

Statements == CallStmts \cup AssignStmts \cup CondStmts \cup ForStmts \cup DeclStmts
                  \cup BrokenStmts \cup SequenceStmts

ReturnTypes == {<<>>, <<"U8">>, <<"U32">>, <<"Int">>, <<"Mul", "U8">>}

\* the bodies of the functions with and without a return type
Bodies ==
    ReturnStmts
        \cup {<<>>, Incr \o Seq1("SemiColon"),
              Seq1("Return") \o <<IntTok(Small(1))>> \o Seq1("SemiColon") \o Incr
                  \o Seq1("SemiColon"),
              Incr \o Seq1("SemiColon") \o Seq1("Return") \o <<IntTok(Small(1))>>
                  \o Seq1("SemiColon"),
              Nest(Seq1("Return") \o <<IntTok(Small(1))>> \o Seq1("SemiColon"), 1),
              <<Tok("Fn")>> \o FnTokens("g", <<>>, <<>>)
                  \o Seq1("Return") \o <<IntTok(Small(1))>> \o Seq1("SemiColon"),
              <<Tok("Fn")>> \o FnTokens("g", <<"U8">>,
                                       Seq1("Return") \o <<IntTok(Small(1))>>
                                           \o Seq1("SemiColon"))}

\* what may follow the second function
Tails ==
    {<<>>, FnTokens("main", <<>>, <<>>), FnTokens("init", <<>>, <<>>),
     FnTokens("last", <<>>, <<>>), Seq1("Let"), Seq1("RightBrace"),
     <<Tok("Fn"), Ident("last")>>, <<Tok("Fn"), Ident("last"), Tok("LeftParen")>>,
     <<Tok("Fn"), Ident("last"), Tok("LeftParen"), Tok("RightParen")>>,
     <<Tok("Fn"), Ident("last"), Tok("LeftParen"), Tok("RightParen"), Tok("Colon")>>,
     <<Tok("Fn"), Ident("last"), Tok("LeftParen"), Tok("RightParen"),
       Tok("LeftBrace")>>}

Programs ==
    {Header \o FnTokens("main", <<>>, Nest(s, k)) \o Seq1("EOF") :
        s \in Statements, k \in 0..MaxNest}
    \cup {Header \o FnTokens("main", t, b) \o Seq1("EOF") : t \in ReturnTypes, b \in Bodies}
    \cup {Header \o FnTokens("main", <<>>, <<>>) \o t \o Seq1("EOF") : t \in Tails}
    \cup {Seq1("EOF")}

(***************************************************************************)
(* The parser after Parser::new(tokens), and its steps.                    *)
(***************************************************************************)
Init ==
    /\ tokens \in Programs
    /\ current = 0
    /\ nodes = <<>>
    /\ symbols = BuiltinSymbols
    /\ current_fn = NoSymbol
    /\ stack = <<>>
    /\ pc = "run"
    /\ err = ""
    /\ registers = [i \in 0..(NumRegisters - 1) |-> FALSE]
    /\ label_count = 0
    /\ assembly = <<>>
    /\ tasks = <<>>
    /\ results = <<>>

Next ==
    \/ ParseFnDecl
    \/ ParseDone
    \/ FnDeclEnd
    \/ VarDeclStmt
    \/ AssignmentStmt
    \/ ReturnStatement
    \/ IfStatement
    \/ IfThenEnd
    \/ IfElseEnd
    \/ WhileStatement
    \/ WhileEnd
    \/ ForStatement
    \/ ForNoIncrement
    \/ ForEnd
    \/ NestedFnDecl
    \/ UnexpectedStatement
    \/ Generate
    \/ GenerateDone
    \/ GenNode
    \/ GenLoad
    \/ GenLoadGlobal
    \/ GenAddressOf
    \/ GenDefineGlobal
    \/ GenIfStmt
    \/ GenWhileStmt
    \/ GenFunction
    \/ GenFunctionPostamble
    \/ GenAdd
    \/ GenSubtract
    \/ GenMultiply
    \/ GenDivide
    \/ GenCompareAndSet
    \/ GenNegateLoad
    \/ GenNegateSubtract
    \/ GenWiden
    \/ GenDereference
    \/ GenStore
    \/ GenFunctionCall
    \/ GenReturnStmt
    \/ GenCompareAndJump
    \/ GenFreeAllRegisters
    \/ GenJump
    \/ GenLabel

Spec == Init /\ [][Next]_vars

\* the program keeps running: a step that can be taken is taken
LiveSpec == Init /\ [][Next]_vars /\ WF_vars(Next)

(***************************************************************************)
(* Reading a state: every AST node the parser holds, and the calls the     *)
(* next step makes.                                                        *)
(***************************************************************************)
RECURSIVE Walk(_), WalkAll(_)
\* n and the nodes below it
Walk(n) ==
    CASE n.kind = "BinaryExpr" -> <<n>> \o Walk(n.left) \o Walk(n.right)
      [] n.kind = "UnaryExpr" -> <<n>> \o Walk(n.right)
      [] n.kind \in {"LiteralExpr", "GlobalVar"} -> <<n>>
      [] n.kind \in {"AssignStmt", "FnCall", "ReturnStmt"} -> <<n>> \o Walk(n.expr)
      [] n.kind = "CompoundStmt" -> <<n>> \o WalkAll(n.statements)
      [] n.kind = "IfStmt" ->
            <<n>> \o Walk(n.condition) \o Walk(n.then_branch) \o Walk(n.else_branch)
      [] n.kind = "WhileStmt" -> <<n>> \o Walk(n.condition) \o Walk(n.body)
      [] n.kind = "FnDecl" -> <<n>> \o Walk(n.body)
      [] OTHER -> <<>>

WalkAll(ns) == IF ns = <<>> THEN <<>> ELSE Walk(Head(ns)) \o WalkAll(Tail(ns))

\* the nodes a handler in progress holds
FrameNodes(f) ==
    WalkAll(f.nodes) \o
    CASE f.ctx \in {"then", "while"} -> Walk(f.data.condition)
      [] f.ctx = "else" -> Walk(f.data.condition) \o Walk(f.data.then_branch)
      [] f.ctx = "for" -> Walk(f.data.initializer) \o Walk(f.data.condition)
                              \o Walk(f.data.increment)
      [] f.ctx = "for_increment" -> Walk(f.data.initializer) \o Walk(f.data.condition)
      [] OTHER -> <<>>

RECURSIVE StackNodes(_)
StackNodes(stk) ==
    IF stk = <<>> THEN <<>> ELSE FrameNodes(Head(stk)) \o StackNodes(Tail(stk))

AllNodes == WalkAll(nodes) \o StackNodes(stack)

\* P of every node the parser holds
EveryNode(P(_)) == \E all \in {AllNodes} : \A i \in DOMAIN all : P(all[i])
SomeNode(P(_)) == \E all \in {AllNodes} : \E i \in DOMAIN all : P(all[i])

IsWiden(n) == n.kind = "UnaryExpr" /\ n.operator.type = "Widen"
IsScale(n) == n.kind = "UnaryExpr" /\ n.operator.type = "Scale"
IsArith(n) == n.kind = "BinaryExpr" /\ n.operator.type \in ArithOps
Bits(ty) == 8 * size(ty)

\* the node the step handed to the handler that was innermost before it
HandedOn(n) ==
    /\ pc' = "run"
    /\ IF Top.ctx = "for_increment"
       THEN Top'.ctx = "for" /\ Top'.data.increment = n
       ELSE stack' = Append(Below, [Top EXCEPT !.nodes = Append(@, n)])

\* the step stops the parse with msg and builds nothing
Aborts(msg) == pc' = "panic" /\ err' = msg /\ UNCHANGED <<nodes, stack>>

(***************************************************************************)
(* C1.  Every integer literal node has the minimal unsigned width that     *)
(* holds its value: 8 bits up to 255, 16 up to 65535, 32 up to 4294967295, *)
(* 64 above.                                                               *)
(***************************************************************************)
MinBits(v) ==
    IF v.hi = 0 THEN (IF v.lo <= 255 THEN 8 ELSE 16)
    ELSE IF v.hi < Radix THEN 32 ELSE 64

IsIntegerLiteral(n) == n.kind = "LiteralExpr" /\ n.value.lit \in {"U8", "Integer"}

C1_MinimalLiteralType ==
    EveryNode(LAMBDA n : IsIntegerLiteral(n) =>
                            is_integer(n.ty) /\ Bits(n.ty) = MinBits(n.value.v))

(***************************************************************************)
(* C2.  A binary expression over two integers of different widths has its  *)
(* narrower operand wrapped in a widen node and the type of its wider      *)
(* operand, whichever side the narrower one is on and whatever the         *)
(* operator.                                                               *)
(***************************************************************************)
MixedWidth(n) ==
    /\ n.kind = "BinaryExpr"
    /\ is_integer(n.left.ty) /\ is_integer(n.right.ty)
    /\ size(n.left.ty) # size(n.right.ty)

C2_NarrowerWidened ==
    EveryNode(LAMBDA n : MixedWidth(n) =>
        LET narrow == IF size(n.left.ty) < size(n.right.ty) THEN n.left ELSE n.right
            wide == IF size(n.left.ty) < size(n.right.ty) THEN n.right ELSE n.left
        IN  IsWiden(narrow) /\ n.ty = wide.ty)

(***************************************************************************)
(* C3.  The type check accepts every arithmetic expression over two        *)
(* integers of differing sizes: a step that parses `l op r`, op one of     *)
(* + - * /, where nothing else is type-checked (the argument of a call     *)
(* statement, the condition of an if or a while) never stops with          *)
(* "Incompatible types".                                                   *)
(***************************************************************************)
\* the tokens from cursor i on are `l op r` and no operator follows
BinaryAt(i) ==
    Bind(unary(i), LAMBDA l :
        IF l.err # "" \/ peek(l.cur).type \notin BinaryOps THEN [ok |-> FALSE]
        ELSE Bind(unary(l.cur + 1), LAMBDA r :
             IF r.err # "" \/ peek(r.cur).type \in BinaryOps THEN [ok |-> FALSE]
             ELSE [ok |-> TRUE, left |-> l.node, op |-> peek(l.cur).type,
                   right |-> r.node]))

\* the cursor where the step parses an expression no handler type-checks, or -1
UncheckedExprCall ==
    IF /\ InStatement
       /\ \/ /\ match_token(current, {"Identifier"})
             /\ find_symbol(peek(current)).structure = "Function"
          \/ match_token(current, {"If", "While"})
       /\ check(current + 1, "LeftParen")
    THEN current + 2 ELSE -1

MixedArithAt(i) ==
    /\ i >= 0
    /\ \E b \in {BinaryAt(i)} :
          /\ b.ok
          /\ b.op \in ArithOps
          /\ is_integer(b.left.ty) /\ is_integer(b.right.ty)
          /\ size(b.left.ty) # size(b.right.ty)

C3_MixedArithAccepted ==
    [][MixedArithAt(UncheckedExprCall) => ~(pc' = "panic" /\ err' = "Incompatible types")]_vars

(***************************************************************************)
(* C4.  An assignment `id = expr` to a declared variable stops the parse   *)
(* with "Incompatible types" when the type of expr is wider than the type  *)
(* of the variable; when it is as wide or narrower, the assignment is not  *)
(* rejected and, the statement properly ended, its AssignStmt node (expr   *)
(* widened if narrower) is handed to the enclosing handler.                *)
(***************************************************************************)
AssignsVariable ==
    /\ InStatement
    /\ match_token(current, {"Identifier"})
    /\ check(current + 1, "Assign")
    /\ find_symbol(peek(current)).structure = "Variable"

\* the statement that ends at cursor i is properly ended
ProperlyEnded(i) ==
    IF Top.ctx = "for_increment"
    THEN check(i, "RightParen") /\ check(i + 1, "LeftBrace")
    ELSE check(i, "SemiColon")

C4_AssignmentWidth ==
    [][AssignsVariable =>
          \E id \in {peek(current)}, e \in {expression(current + 2)} :
             e.err = "" =>
                IF size(e.node.ty) > size(find_symbol(id).ty)
                THEN Aborts("Incompatible types")
                ELSE /\ ~(pc' = "panic" /\ err' = "Incompatible types")
                     /\ ProperlyEnded(e.cur) =>
                           IF size(e.node.ty) < size(find_symbol(id).ty)
                           THEN HandedOn(AssignStmt(id, UnaryExpr(Tok("Widen"), e.node,
                                                                  e.node.ty)))
                           ELSE HandedOn(AssignStmt(id, e.node))]_vars

\* the parse stopped at the end of the expression of an assignment of a wider
\* value to a narrower variable
C4_WiderRejected ==
    /\ pc = "panic" /\ err = "Incompatible types"
    /\ \E i \in 0..current :
          /\ check(i, "Identifier") /\ check(i + 1, "Assign")
          /\ find_symbol(peek(i)).structure = "Variable"
          /\ \E e \in {expression(i + 2)} :
                /\ e.err = "" /\ e.cur = current
                /\ size(e.node.ty) > size(find_symbol(peek(i)).ty)

(***************************************************************************)
(* C5.  The compatibility check lets through only equal types, two         *)
(* integers, and a pointer with an integer under + or -: every arithmetic  *)
(* BinaryExpr and every AssignStmt the parser builds pairs types of one of *)
(* these three shapes.                                                     *)
(***************************************************************************)
AllowedPairing(l, r, op) ==
    \/ l = r
    \/ is_integer(l) /\ is_integer(r)
    \/ /\ op \in {"Add", "Sub"}
       /\ \/ is_pointer(l) /\ is_integer(r)
          \/ is_integer(l) /\ is_pointer(r)

C5_OtherPairingsRejected ==
    EveryNode(LAMBDA n :
        /\ IsArith(n) => AllowedPairing(n.left.ty, n.right.ty, n.operator.type)
        /\ n.kind = "AssignStmt" =>
              AllowedPairing(n.expr.ty, find_symbol(n.identifier).ty, "Assign"))

(***************************************************************************)
(* C6.  In a + or - expression over a pointer and an integer, the integer  *)
(* operand is a scale node when the pointee is larger than one byte, and   *)
(* is not one when the pointee is one byte.                                *)
(***************************************************************************)
IsPointerArith(n) ==
    /\ n.kind = "BinaryExpr" /\ n.operator.type \in {"Add", "Sub"}
    /\ \/ is_pointer(n.left.ty) /\ is_integer(n.right.ty)
       \/ is_integer(n.left.ty) /\ is_pointer(n.right.ty)

C6_IntegerScaled ==
    EveryNode(LAMBDA n : IsPointerArith(n) =>
        LET ptr == IF is_pointer(n.left.ty) THEN n.left ELSE n.right
            int == IF is_pointer(n.left.ty) THEN n.right ELSE n.left
        IN  IsScale(int) <=> size(value_at(ptr.ty)) > 1)

(***************************************************************************)
(* C7.  `if (cond)` and `while (cond)` stop the parse with "Expected       *)
(* comparison operator" whenever cond is not a BinaryExpr whose operator   *)
(* is one of == != < <= > >=, and build no node and open no block then.    *)
(***************************************************************************)
HasRelationalTop(n) ==
    /\ n.kind = "BinaryExpr"
    /\ n.operator.type \in {"Equal", "NotEqual", "LessThan", "LessThanOrEqual",
                            "GreaterThan", "GreaterThanOrEqual"}

C7_ConditionRelational ==
    [][(/\ InStatement
        /\ match_token(current, {"If", "While"})
        /\ check(current + 1, "LeftParen"))
          => \E e \in {expression(current + 2)} :
                (e.err = "" /\ ~HasRelationalTop(e.node))
                   => Aborts("Expected comparison operator")]_vars

\* the parse stopped at the end of the condition of an if or a while, and the
\* condition is an expression that is not relational
C7_ConditionRejected ==
    /\ pc = "panic" /\ err = "Expected comparison operator"
    /\ \E i \in 0..current :
          /\ \/ check(i, "If")
             \/ check(i, "While")
          /\ check(i + 1, "LeftParen")
          /\ \E e \in {expression(i + 2)} :
                e.err = "" /\ e.cur = current /\ ~HasRelationalTop(e.node)

(***************************************************************************)
(* C8.  Declaring an identifier that is already in the symbol table stops  *)
(* the parse with "already declared" and leaves the table as it was; the   *)
(* table never holds two symbols with one identifier, and printint always  *)
(* resolves to a Function.                                                 *)
(***************************************************************************)
NoDuplicateSymbols ==
    \A i, j \in DOMAIN symbols :
        symbols[i].identifier.lexeme = symbols[j].identifier.lexeme => i = j

PrintintResolves == find_symbol(Ident("printint")).structure = "Function"

\* the step reaches add_symbol with an identifier of the table
Redeclares ==
    \/ /\ InStatement
       /\ match_token(current, {"Let"})
       /\ check(current + 1, "Identifier") /\ check(current + 2, "Colon")
       /\ parse_type(current + 3).err = ""
       /\ find_symbol(peek(current + 1)).structure # "None"
    \/ /\ pc = "run" /\ stack = <<>>
       /\ check(current, "Fn") /\ check(current + 1, "Identifier")
       /\ find_symbol(peek(current + 1)).structure # "None"
    \/ /\ InStatement
       /\ check(current, "Fn") /\ check(current + 1, "Fn")
       /\ check(current + 2, "Identifier")
       /\ find_symbol(peek(current + 2)).structure # "None"

C8_NoRedeclaration ==
    /\ [](NoDuplicateSymbols /\ PrintintResolves)
    /\ [][Redeclares => pc' = "panic" /\ err' = "already declared"
                          /\ UNCHANGED <<symbols, nodes, stack>>]_vars

\* the parse stopped on the second declaration of a user's identifier
C8_SecondDeclarationRejected ==
    /\ pc = "panic" /\ err = "already declared"
    /\ Len(symbols) > 1
    /\ \E i \in 0..current :
          /\ check(i, "Identifier")
          /\ find_symbol(peek(i)).structure # "None"
          /\ peek(i).lexeme # "printint"

(***************************************************************************)
(* C9.  A function declared with a return type whose body is empty or does *)
(* not end in a ReturnStmt stops the parse with "Function does not return  *)
(* a value" at the end of its declaration and gives no FnDecl node: every  *)
(* FnDecl node with a return type ends in a ReturnStmt.                    *)
(***************************************************************************)
EndsInReturn(statements) ==
    /\ statements # <<>>
    /\ statements[Len(statements)].kind = "ReturnStmt"

TypedFnDeclsReturn ==
    EveryNode(LAMBDA n : (n.kind = "FnDecl" /\ n.return_type # NoType)
                            => EndsInReturn(n.body.statements))

C9_FinalReturnRequired ==
    /\ []TypedFnDeclsReturn
    /\ [][(/\ InBlockEnd("fn")
           /\ check(current, "RightBrace")
           /\ Top.data.ty # NoType
           /\ ~EndsInReturn(Top.nodes))
             => Aborts("Function does not return a value")]_vars

\* the parse stopped at the end of a function with a return type whose body
\* holds statements and does not end in a return
C9_NoFinalReturn ==
    /\ pc = "panic" /\ err = "Function does not return a value"
    /\ Top.ctx = "fn" /\ Top.data.ty # NoType
    /\ Top.nodes # <<>>

(***************************************************************************)
(* C10.  A `return` statement stops the parse when there is no current     *)
(* function, and when the function around it was declared without a       *)
(* return type.                                                            *)
(***************************************************************************)
RECURSIVE EnclosingFn(_)
\* the locals of the innermost fn_decl in progress
EnclosingFn(stk) ==
    IF stk = <<>> THEN [ty |-> NoType]
    ELSE IF stk[Len(stk)].ctx = "fn" THEN stk[Len(stk)].data
    ELSE EnclosingFn(SubSeq(stk, 1, Len(stk) - 1))

C10_ReturnNeedsReturnType ==
    [][(/\ InStatement
        /\ match_token(current, {"Return"})
        /\ \/ current_fn.structure = "None"
           \/ EnclosingFn(stack).ty = NoType)
          => pc' = "panic"]_vars

(***************************************************************************)
(* C11.  A `return expr` is checked against the return type the function   *)
(* around it was declared with: an expression wider than that type stops   *)
(* the parse with "Incompatible types"; one as wide or narrower is not     *)
(* rejected and, the statement properly ended, its ReturnStmt node (expr   *)
(* wrapped in a widen node if narrower) is handed to the enclosing         *)
(* handler.                                                                *)
(***************************************************************************)
ReturnsInTypedFn ==
    /\ InStatement
    /\ match_token(current, {"Return"})
    /\ current_fn.structure # "None"
    /\ EnclosingFn(stack).ty # NoType

C11_ReturnTypeChecked ==
    [][ReturnsInTypedFn =>
          \E declared \in {EnclosingFn(stack).ty}, e \in {expression(current + 1)} :
             e.err = "" =>
                IF size(e.node.ty) > size(declared)
                THEN Aborts("Incompatible types")
                ELSE /\ ~(pc' = "panic" /\ err' = "Incompatible types")
                     /\ ProperlyEnded(e.cur) =>
                           IF size(e.node.ty) < size(declared)
                           THEN HandedOn(ReturnStmt(UnaryExpr(Tok("Widen"), e.node,
                                                              e.node.ty), current_fn))
                           ELSE HandedOn(ReturnStmt(e.node, current_fn))]_vars

(***************************************************************************)
(* The generator's registers and lines.                                    *)
(***************************************************************************)
\* the last line of the assembly
LastLine == assembly[Len(assembly)]
\* the lines the step adds
Emitted == SubSeq(assembly', Len(assembly) + 1, Len(assembly'))

\* the next step calls allocate_register
Allocates ==
    /\ Generating
    /\ \/ Task.t \in {"negate_load", "function_call"}
       \/ /\ Task.t = "node"
          /\ \/ Task.node.kind = "LiteralExpr"
             \/ Task.node.kind = "UnaryExpr" /\ Task.node.operator.type = "Ampersand"

\* C12: a step that allocates panics with "No available register" and the
\* pool as it was when all four registers are in use; otherwise the register
\* it takes is the lowest-indexed free one, it was not in use, the line that
\* fills it names it, and it is marked in use (a call frees its argument
\* register, and a call of printint its result register, in the same step)
C12_LowestFreeAllocated ==
    [][Allocates =>
          IF \A i \in 0..(NumRegisters - 1) : registers[i]
          THEN /\ pc' = "panic" /\ err' = "No available register"
               /\ registers' = registers
          ELSE \E r \in 0..(NumRegisters - 1) :
                  /\ ~registers[r]
                  /\ \A j \in 0..(r - 1) : registers[j]
                  /\ pc' # "panic" => Emitted[Len(Emitted)].dst = Reg(r)
                  /\ ~(/\ Task.t = "function_call"
                        /\ (Task.identifier.lexeme = "printint" \/ Right = r))
                        => registers'[r]]_vars

\* the fifth value of `c == c < c + c * c` finds no register
C12_PoolExhausted ==
    /\ pc = "panic" /\ err = "No available register"
    /\ tasks # <<>> /\ Task.t = "node"
    /\ \A i \in 0..(NumRegisters - 1) : registers[i]

\* the positions of the lines that define L<n>, and of the jumps to it
Definitions(n) ==
    {i \in DOMAIN assembly : assembly[i].ins = "label" /\ assembly[i].dst = Lab(n)}
Jumps(n) ==
    {i \in DOMAIN assembly : assembly[i].ins # "label" /\ assembly[i].dst = Lab(n)}
JumpTargets == {assembly[i].dst.n : i \in {j \in DOMAIN assembly :
                                              /\ assembly[j].ins # "label"
                                              /\ assembly[j].dst.k = "L"}}

\* the next step starts the emission of an if or a while statement
StartsBranch == OnNode({"IfStmt", "WhileStmt"})

\* C13: the step that starts an if or a while statement takes exactly two
\* labels and no other step takes any, so the counter only grows; no L<n> is
\* defined twice and no label above the counter is named; when the
\* generator returns, every jump targets a label that is defined exactly once
C13_LabelsUnique ==
    /\ [][/\ label_count' >= label_count
          /\ StartsBranch => label_count' = label_count + 2
          /\ ~StartsBranch => label_count' = label_count]_vars
    /\ [](\A n \in 0..(label_count + 1) :
             /\ Cardinality(Definitions(n)) <= 1
             /\ n > label_count => Definitions(n) = {} /\ Jumps(n) = {})
    /\ [](pc = "end" => \A n \in JumpTargets : Cardinality(Definitions(n)) = 1)

\* a finished program with two statements that branch
C13_TwoBranches ==
    /\ pc = "end"
    /\ label_count = 4
    /\ \A n \in 1..4 : Cardinality(Definitions(n)) = 1 /\ Jumps(n) # {}

\* the next step is load_global
LoadsGlobal == OnNode({"LiteralExpr"}) /\ Task.node.value.lit = "Identifier"

\* C14: the line load_global emits is the full-width movq only for a global
\* of 64-bit size; a global of 8 bits is loaded with the zero-extending byte
\* load, and a global of 32 bits with a load of 32 bits
C14_LoadOfOwnWidth ==
    [][LoadsGlobal /\ pc' # "panic" =>
          /\ Len(Emitted) = 1
          /\ Emitted[1].src = Sym(Task.node.value.name)
          /\ Emitted[1].ins = "movq" => size(Task.node.ty) = 8
          /\ size(Task.node.ty) = 1 => Emitted[1].ins = "movzbq"
          /\ size(Task.node.ty) = 4 => Emitted[1].ins = "movl"]_vars

RECURSIVE Marks(_), MarksAll(_)
\* the stores, returns and function ends of n in source order
Marks(n) ==
    CASE n.kind = "AssignStmt" -> <<[m |-> "store", name |-> n.identifier.lexeme]>>
      [] n.kind = "ReturnStmt" -> <<[m |-> "return", name |-> ""]>>
      [] n.kind = "CompoundStmt" -> MarksAll(n.statements)
      [] n.kind = "IfStmt" ->
            Marks(n.then_branch)
                \o (IF n.else_branch.kind = "None" THEN <<>> ELSE Marks(n.else_branch))
      [] n.kind = "WhileStmt" -> Marks(n.body)
      [] n.kind = "FnDecl" ->
            Marks(n.body) \o <<[m |-> "end", name |-> n.identifier.lexeme]>>
      [] OTHER -> <<>>
MarksAll(s) == IF s = <<>> THEN <<>> ELSE Marks(Head(s)) \o MarksAll(Tail(s))

\* line i stores a register to a global, moves one to %rax for a return (the
\* move of divide is followed by cqo), ends a function
IsStoreLine(i) == assembly[i].src.k = "reg" /\ assembly[i].dst.k = "sym"
IsReturnLine(i) ==
    /\ assembly[i].src.k = "reg" /\ assembly[i].dst = Fixed("%rax")
    /\ i < Len(assembly) => assembly[i + 1].ins # "cqo"
IsEndLine(i) == assembly[i].ins = "label" /\ assembly[i].dst.k = "end"

RECURSIVE MarksFrom(_)
\* the marks of the lines i.. of the assembly
MarksFrom(i) ==
    IF i > Len(assembly) THEN <<>>
    ELSE (IF IsStoreLine(i) THEN <<[m |-> "store", name |-> assembly[i].dst.name]>>
          ELSE IF IsReturnLine(i) THEN <<[m |-> "return", name |-> ""]>>
          ELSE IF IsEndLine(i) THEN <<[m |-> "end", name |-> assembly[i].dst.name]>>
          ELSE <<>>) \o MarksFrom(i + 1)
EmittedMarks == MarksFrom(1)

\* C15: the step that ends a return statement emits the one line that moves
\* the register of its expression to %rax and frees that register and no other;
\* no line jumps to a function's end label; and when the generator returns,
\* the stores, returns and <name>_end labels of the assembly are those of the
\* program in source order, the statements after a return included
C15_ReturnFallsThrough ==
    /\ [][OnTask("return_stmt") =>
             /\ Emitted = <<Asm("movq", Reg(Right), Fixed("%rax"))>>
             /\ registers' = [registers EXCEPT ![Right] = FALSE]
             /\ tasks' = Rest]_vars
    /\ [](\A i \in DOMAIN assembly :
             assembly[i].dst.k = "end" => assembly[i].ins = "label")
    /\ [](pc = "end" => EmittedMarks = MarksAll(nodes))

\* `return 1; c = c + 1;`: the store follows the return, before main_end
C15_StoreAfterReturn ==
    /\ pc = "end"
    /\ \E i \in 1..(Len(EmittedMarks) - 2) :
          /\ EmittedMarks[i].m = "return"
          /\ EmittedMarks[i + 1] = [m |-> "store", name |-> "c"]
          /\ EmittedMarks[i + 2] = [m |-> "end", name |-> "main"]

\* the next step is the last one of a statement: the store of an assignment,
\* a declaration, the end of a call whose value nobody takes, the move of a
\* return, the last label of an if or a while
FinishesStatement ==
    \/ OnTask("store")
    \/ OnTask("return_stmt")
    \/ OnTask("function_call") /\ ~Task.used
    \/ OnNode({"GlobalVar"})
    \/ OnTask("generate_label") /\ Task.closes

\* C16: when a statement is finished, all four registers are free
C16_StatementFreesRegisters ==
    [][FinishesStatement /\ pc' # "panic" => AllFree(registers')]_vars

\* the next step ends a call of generate_node whose caller takes the register
\* it returns: a literal, an identifier load, an address-of (one step each),
\* or the last step of a negate, widen, dereference, binary expression, call
YieldsValue ==
    /\ Generating
    /\ \/ Task.t = "node" /\ Task.used /\ Task.node.kind = "LiteralExpr"
       \/ /\ Task.t = "node" /\ Task.used /\ Task.node.kind = "UnaryExpr"
          /\ Task.node.operator.type = "Ampersand"
       \/ /\ Task.t \in {"binary", "negate_subtract", "widen", "dereference",
                        "function_call"}
          /\ Task.used
\* the number of registers in use when that call started
InUseBefore == IF Task.t = "node" THEN InUse(registers) ELSE Task.before

\* C17: when the code of a value-yielding node is generated, the register
\* returned is in use and one more register is in use than before
C17_ValueHoldsOneRegister ==
    [][YieldsValue /\ pc' # "panic" =>
          /\ registers'[results'[Len(results')]]
          /\ InUse(registers') = InUseBefore + 1]_vars

\* the next step is add, subtract, multiply, divide or compare_and_set; the
\* operand registers it is called with
EmitsBinary == Generating /\ Task.t \in {"binary", "negate_subtract"} /\ Task.used
LeftOperand == IF Task.t = "binary" THEN Left ELSE 0
RightOperand == Right

\* C18: called with two distinct registers that are in use, a binary operator
\* returns one of them, still in use, frees the other and leaves the rest of
\* the pool as it was
C18_BinaryKeepsOneOperand ==
    [][/\ EmitsBinary
       /\ LeftOperand # RightOperand
       /\ registers[LeftOperand] /\ registers[RightOperand]
       => \E kept \in {LeftOperand, RightOperand} :
             \E freed \in {LeftOperand, RightOperand} \ {kept} :
                /\ pc' # "panic"
                /\ results'[Len(results')] = kept
                /\ registers' = [registers EXCEPT ![freed] = FALSE]]_vars

\* after `addq %r8, %r9` the sum is in %r9 and %r8 is free
C18_SumKeptInRight ==
    /\ pc = "gen" /\ results # <<>>
    /\ LastLine = Asm("addq", Reg(0), Reg(1))
    /\ Right = 1
    /\ registers = [i \in 0..(NumRegisters - 1) |-> i = 1]

\* the nodes of the AST that parse returned
HandedToCodegen == IF pc \in {"done", "gen", "end"} THEN WalkAll(nodes) ELSE <<>>

\* C19: in the AST that parse returns, the condition of every IfStmt and of
\* every WhileStmt, the one built from a for statement included, is a
\* BinaryExpr with an equality or relational operator
C19_ConditionsAreComparisons ==
    \E ast \in {HandedToCodegen} :
       \A i \in DOMAIN ast :
          ast[i].kind \in {"IfStmt", "WhileStmt"} => HasRelationalTop(ast[i].condition)

\* the conditional jumps, and the false labels of the if statements emitted so
\* far: labels are taken in pairs, an if jumps on its condition to the first
\* of its pair, a while to the second
ConditionalJumps == {JumpInstructions[o] : o \in DOMAIN JumpInstructions}
BranchesTo(n) == {i \in Jumps(n) : assembly[i].ins \in ConditionalJumps}
IfLabels == {n \in 1..label_count : n % 2 = 1 /\ BranchesTo(n) # {}}

\* C20: for an if statement with the labels L<n> (false) and L<n+1> (end) the
\* lines come in the order: compare, branch to L<n>, ..., jmp L<n+1>, L<n>:,
\* ..., L<n+1>:; each exactly once, the jump to the end label directly before
\* the false label; all registers are free when the jump and when the end
\* label are emitted
C20_IfEmissionOrder ==
    /\ [](\A n \in IfLabels :
             /\ Cardinality(BranchesTo(n)) = 1 /\ Jumps(n) = BranchesTo(n)
             /\ \A a \in BranchesTo(n) : assembly[a - 1].ins = "cmpq"
             /\ Cardinality(Jumps(n + 1)) <= 1
             /\ \A b \in Jumps(n + 1) :
                   /\ assembly[b].ins = "jmp"
                   /\ \A a \in BranchesTo(n) : a < b
             /\ \A c \in Definitions(n) : Jumps(n + 1) = {c - 1}
             /\ \A d \in Definitions(n + 1) : \E c \in Definitions(n) : c < d
             /\ pc = "end" => Definitions(n + 1) # {})
    /\ [][/\ OnTask("jump") => AllFree(registers)
          /\ OnTask("generate_label") /\ Task.closes => AllFree(registers)]_vars

\* `if (c < 1) { c = c + 1; } else { init(c); }`: the store of the then branch
\* lies between the branch and the jump, the call of the else branch between
\* the two labels
C20_BranchesInPlace ==
    /\ pc = "end"
    /\ \E n \in IfLabels :
          \E a \in BranchesTo(n), b \in Jumps(n + 1), c \in Definitions(n),
             d \in Definitions(n + 1) :
                /\ \E i \in (a + 1)..(b - 1) : IsStoreLine(i)
                /\ \E i \in (c + 1)..(d - 1) : assembly[i].ins = "call"

\* the start labels of the while statements emitted so far: a while branches
\* on its condition to the second label of its pair
WhileLabels == {n \in 1..label_count : n % 2 = 1 /\ BranchesTo(n + 1) # {}}

\* C21: for a while statement with the labels L<n> (start) and L<n+1> (end)
\* the lines come in the order: L<n>:, the code of the condition, compare,
\* branch to L<n+1>, ..., jmp L<n>, L<n+1>:; each exactly once, the end label
\* directly after the jump back, the code of the condition, with no label or
\* jump in it, between the start label and the compare; all registers are free after each
\* free_all_registers and when the jump back is emitted
C21_WhileEmissionOrder ==
    /\ [](\A n \in WhileLabels :
             /\ Cardinality(Definitions(n)) = 1
             /\ Cardinality(BranchesTo(n + 1)) = 1 /\ Jumps(n + 1) = BranchesTo(n + 1)
             /\ \A s \in Definitions(n), a \in BranchesTo(n + 1) :
                   /\ assembly[a - 1].ins = "cmpq"
                   /\ s + 2 < a - 1
                   /\ \A i \in (s + 1)..(a - 2) :
                         assembly[i].ins \notin {"label", "jmp"} \cup ConditionalJumps
             /\ Cardinality(Jumps(n)) <= 1
             /\ \A b \in Jumps(n) :
                   /\ assembly[b].ins = "jmp"
                   /\ \A a \in BranchesTo(n + 1) : a < b
             /\ \A e \in Definitions(n + 1) : Jumps(n) = {e - 1}
             /\ pc = "end" => Definitions(n + 1) # {})
    /\ [][/\ OnTask("free_all_registers") => AllFree(registers')
          /\ OnTask("jump") => AllFree(registers) /\ Emitted = <<Asm("jmp", NoOperand,
                                                                   Lab(Task.label))>>]_vars

\* `while (c < 1) { c = c + 1; }`: the store of the body lies between the
\* branch to the end label and the jump back
C21_BodyBeforeBackJump ==
    /\ pc = "end"
    /\ \E n \in WhileLabels :
          \E s \in Definitions(n), a \in BranchesTo(n + 1), b \in Jumps(n),
             e \in Definitions(n + 1) :
                /\ s < a /\ a < b /\ b < e
                /\ \E i \in (a + 1)..(b - 1) : IsStoreLine(i)

\* the values the two operands of a comparison are tried with
MaxOperand == 2

\* `left op right` holds
Holds(op, l, r) ==
    CASE op = "Equal" -> l = r
      [] op = "NotEqual" -> l # r
      [] op = "LessThan" -> l < r
      [] op = "LessThanOrEqual" -> l <= r
      [] op = "GreaterThan" -> l > r
      [] op = "GreaterThanOrEqual" -> l >= r

\* after `cmpq src, dst` the jump ins is taken
Taken(ins, src, dst) ==
    CASE ins = "je" -> dst = src
      [] ins = "jne" -> dst # src
      [] ins = "jl" -> dst < src
      [] ins = "jle" -> dst <= src
      [] ins = "jg" -> dst > src
      [] ins = "jge" -> dst >= src
      [] OTHER -> FALSE

\* C22: for each of the six relational operators compare_and_jump emits a
\* compare of its two operand registers and then a branch to the given label
\* that is taken exactly when `left op right` does not hold, and both operand
\* registers are free afterwards
C22_InvertedBranch ==
    [][OnTask("compare_and_jump") /\ Task.operator \in EqualityOps \cup RelationalOps =>
          /\ pc' # "panic"
          /\ Len(Emitted) = 2
          /\ Emitted[1].ins = "cmpq"
          /\ {Emitted[1].src, Emitted[1].dst} = {Reg(Left), Reg(Right)}
          /\ Emitted[2].dst = Lab(Task.label)
          /\ \A l \in 0..MaxOperand, r \in 0..MaxOperand :
                Left # Right \/ l = r =>
                   (Taken(Emitted[2].ins,
                          IF Emitted[1].src = Reg(Right) THEN r ELSE l,
                          IF Emitted[1].dst = Reg(Left) THEN l ELSE r)
                       <=> ~Holds(Task.operator, l, r))
          /\ ~registers'[Left] /\ ~registers'[Right]]_vars

\* `c < 1` as a condition: `cmpq %r9, %r8` and `jge L1`, all registers free
C22_LessThanBranchesOnGreaterOrEqual ==
    /\ pc = "gen" /\ Len(assembly) > 1
    /\ assembly[Len(assembly) - 1] = Asm("cmpq", Reg(1), Reg(0))
    /\ LastLine = Asm("jge", NoOperand, Lab(1))
    /\ AllFree(registers)

IsDereference(n) == n.kind = "UnaryExpr" /\ n.operator.type = "Mul"

\* C23: prefix never applies value_at to a type that is not a pointer, it has
\* rejected the dereference before; and the operand of every dereference node
\* the parser holds has a pointer type
C23_DereferenceOfPointerOnly ==
    /\ ~(pc = "panic" /\ err = "value_at of a non-pointer")
    /\ EveryNode(LAMBDA n : IsDereference(n) => is_pointer(n.right.ty))

\* the number of bytes a store instruction writes
StoreWidth(ins) ==
    CASE ins = "movq" -> 8
      [] ins = "movl" -> 4
      [] ins = "movb" -> 1
      [] OTHER -> 0

\* C24: the store emitted for an assignment writes as many bytes as the
\* declared type of the variable assigned to has
C24_StoreOfDeclaredWidth ==
    [][OnTask("store") /\ pc' # "panic" =>
          /\ Len(Emitted) = 1
          /\ Emitted[1].dst = Sym(Task.identifier)
          /\ StoreWidth(Emitted[1].ins) = size(find_symbol(Ident(Task.identifier)).ty)]_vars

\* the cursor of the end-of-input token
AtEOF == Len(tokens) - 1

\* C25: parse stops, returning its nodes or aborting; while it runs the cursor
\* never moves backwards and every step that leaves it running (an iteration
\* of the loop of parse or of compound_statement) moves it forwards; the
\* cursor never passes the end-of-input token; and from every position an
\* expression (the operator chains) and a type (the pointer stars) leave the
\* cursor at or behind where they started, behind when they succeed, and not
\* past the end-of-input token
C25_ParseTerminates ==
    /\ <>(pc # "run")
    /\ [][pc = "run" =>
             /\ current' >= current
             /\ pc' = "run" => current' > current]_vars
    /\ [](/\ current <= AtEOF
          /\ \A i \in 1..current : tokens[i].type # "EOF")
    /\ [](pc = "done" =>
             \A i \in 0..AtEOF :
                /\ \E x \in {expression(i)} :
                      /\ i <= x.cur /\ x.cur <= AtEOF
                      /\ x.err = "" => i < x.cur
                /\ \E t \in {parse_type(i)} :
                      /\ i <= t.cur /\ t.cur <= AtEOF
                      /\ t.err = "" => i < t.cur)

\* parse returned two declarations with the cursor on the end-of-input token
C25_ReturnedAtEOF ==
    /\ pc = "done"
    /\ Len(nodes) = 2
    /\ current = AtEOF /\ is_at_end(current)

====
